---- MODULE Spec2Model ----
(***************************************************************************)
(* Conversation memory manager of lib/memory: the session store (a Map of  *)
(* session objects), the summarizing memory manager and its cleanup.       *)
(*                                                                         *)
(* Session objects live on a heap and are handed out by reference, as in   *)
(* the source: getSession returns the stored object itself, and an         *)
(* addMessage suspended in `await` keeps its reference across the          *)
(* suspension.  Messages are identified by a number; a summary is          *)
(* identified by the messages that were given to generateSummary.          *)
(***************************************************************************)
EXTENDS Integers, Sequences, FiniteSets, TLC

\* ---- bounds of the model ----
NumSessions == 2
MaxMessages == 5
MaxTime == 2
MaxCalls == 2
MaxTimers == 3
MaxRuns == 2

SessionIds == 1..NumSessions
ObjIds == 1..(NumSessions + MaxCalls + 1)

\* The configuration loaded from the environment: MEMORY_THRESHOLD=4,
\* RECENT_MESSAGES_LIMIT=2, SESSION_TIMEOUT_HOURS=1, MAX_SESSIONS=1 (all in range).
memoryConfig ==
  [memoryThreshold |-> 4, recentMessagesLimit |-> 2,
   sessionTimeoutHours |-> 1, maxSessions |-> 1]

VARIABLES
  sessions,    \* SessionStorage.sessions: the Map, as <<[id, ref]>> in insertion order
  heap,        \* the session objects, by reference
  calls,       \* addMessage calls suspended at an await
  now,         \* the clock (hours)
  nextMsg,     \* next message to be created
  available,   \* summaryGenerator.isAvailable(), fixed at construction
  lastOp,      \* the latest step of an operation, with what it returned (for
               \* clearSession: the context of the record it replaced)
  accepted,    \* per session id: messages pushed since creation / clear / eviction
  env,         \* process.env: the four settings of the memory system
  loaded,      \* the exported memoryConfig, once config.ts has been evaluated
  isInitialized,      \* initialize.ts
  cleanupScheduler,   \* CleanupScheduler: [isRunning, intervalId, cleanupIntervalMs]
  corruptionChecker,  \* CorruptionChecker: [isRunning, intervalId]
  timers,             \* the active setInterval timers, as [id, task, period]
  cleanupRuns,        \* runCleanup calls that have begun and not finished
  errors              \* memoryErrorLogger.errors, as [type, timestamp]

startup == <<env, loaded>>
background == <<isInitialized, cleanupScheduler, corruptionChecker, timers, cleanupRuns>>
outside == <<startup, background, errors>>

vars == <<sessions, heap, calls, now, nextMsg, available, lastOp, accepted,
          env, loaded, isInitialized, cleanupScheduler, corruptionChecker, timers,
          cleanupRuns, errors>>

\* ---- JavaScript helpers ----
Min(a, b) == IF a <= b THEN a ELSE b
Max(a, b) == IF a >= b THEN a ELSE b

\* mutant: the first n elements instead of the last n
sliceFirst(arr, n) == SubSeq(arr, 1, Min(n, Len(arr)))

\* Array.prototype.slice(-n)
sliceLast(arr, n) ==
  IF n = 0 THEN arr
  ELSE SubSeq(arr, Max(1, Len(arr) - n + 1), Len(arr))

\* Array.prototype.slice(0, -n)
sliceButLast(arr, n) ==
  IF n = 0 THEN <<>>
  ELSE SubSeq(arr, 1, Max(0, Len(arr) - n))

\* ---- Map<string, SessionData> ----
MapKeys(map) == {map[i].id : i \in DOMAIN map}
MapHas(map, sid) == sid \in MapKeys(map)
MapIndex(map, sid) == CHOOSE i \in DOMAIN map : map[i].id = sid
MapGet(map, sid) == map[MapIndex(map, sid)].ref
MapSet(map, sid, ref) ==
  IF MapHas(map, sid)
  THEN [map EXCEPT ![MapIndex(map, sid)].ref = ref]
  ELSE Append(map, [id |-> sid, ref |-> ref])
MapDelete(map, sid) == SelectSeq(map, LAMBDA e : e.id # sid)

\* ---- heap of session objects ----
NewRef(h) == CHOOSE o \in ObjIds : o \notin DOMAIN h
Alloc(h, r, obj) == [o \in DOMAIN h \cup {r} |-> IF o = r THEN obj ELSE h[o]]
\* A reference is only an identity.  After each step the objects that are
\* still reachable are renumbered: the stored ones by their position in the
\* Map, then those only a suspended call holds, by the earliest such call.
\* Unreachable objects are dropped (garbage collection).
StoredRefs(map) == {map[i].ref : i \in DOMAIN map}
DetachedRefs(map, cs) == {c.ref : c \in cs} \ StoredRefs(map)
FirstCall(cs, r) ==
  CHOOSE m \in {c.msg : c \in {d \in cs : d.ref = r}} :
    \A c \in cs : c.ref = r => m <= c.msg
Renumber(map, cs, r) ==
  IF r \in StoredRefs(map)
  THEN CHOOSE i \in DOMAIN map : map[i].ref = r
  ELSE Len(map) + Cardinality({d \in DetachedRefs(map, cs) : FirstCall(cs, d) <= FirstCall(cs, r)})
Commit(map, h, cs) ==
  LET live == StoredRefs(map) \cup DetachedRefs(map, cs) IN
  /\ sessions' = [i \in DOMAIN map |-> [id |-> map[i].id, ref |-> i]]
  /\ heap' = [n \in {Renumber(map, cs, r) : r \in live} |->
                h[CHOOSE r \in live : Renumber(map, cs, r) = n]]
  /\ calls' = {[c EXCEPT !.ref = Renumber(map, cs, c.ref)] : c \in cs}

\* ---- utils.ts ----
createEmptySession(sid, t) ==
  [sessionId |-> sid, messages |-> <<>>, summaries |-> <<>>,
   lastActivity |-> t, messageCount |-> 0]

\* mutant: the timestamp is left alone
updateSessionActivityForgotten(session, t) == session

updateSessionActivity(session, t) == [session EXCEPT !.lastActivity = t]

\* ---- summarization-utils.ts ----
\* mutant: summarize only once the count exceeds the threshold
needsSummarizationStrict(session) ==
  session.messageCount > memoryConfig.memoryThreshold

needsSummarization(session) ==
  session.messageCount >= memoryConfig.memoryThreshold

\* mutant: the whole tail goes into the summary
getMessagesToSummarizeAll(messages) == messages

getMessagesToSummarize(messages) ==
  IF Len(messages) <= memoryConfig.recentMessagesLimit
  THEN <<>>
  ELSE sliceButLast(messages, memoryConfig.recentMessagesLimit)

\* mutant: the tail is not trimmed
getRecentMessagesUntrimmed(messages) == messages

getRecentMessages(messages) == sliceLast(messages, memoryConfig.recentMessagesLimit)

\* ---- session-storage.ts ----
\* getSession: the stored object (activity touched), created when absent.
getSession(map, h, sid, t) ==
  IF MapHas(map, sid)
  THEN LET r == MapGet(map, sid) IN
       [sessions |-> map, heap |-> [h EXCEPT ![r] = updateSessionActivity(@, t)], ref |-> r]
  ELSE LET r == NewRef(h) IN
       [sessions |-> MapSet(map, sid, r),
        heap |-> Alloc(h, r, createEmptySession(sid, t)), ref |-> r]

\* updateSession: every object the manager passes is structurally valid, so
\* validateSessionData never rejects here.
updateSession(map, h, sid, r, t) ==
  [sessions |-> MapSet(map, sid, r),
   heap |-> [h EXCEPT ![r] = updateSessionActivity(@, t)]]

\* ---- memory-manager.ts ----
\* mutant: the push without the count
pushMessageUncounted(session, m, t) ==
  updateSessionActivity([session EXCEPT !.messages = Append(@, m)], t)

\* addMessage lines 32-34: push, count, touch
pushMessage(session, m, t) ==
  updateSessionActivity(
    [session EXCEPT !.messages = Append(@, m), !.messageCount = @ + 1], t)

NoResult == [none |-> TRUE]
Returned(op, sid, outcome, result) ==
  [op |-> op, sessionId |-> sid, outcome |-> outcome, result |-> result]

\* ---- config.ts (in types.ts): the configuration from the environment ----
\* A string is a sequence of characters; an unset variable is `undefined`.
Undefined == <<"undefined">>
DigitValue ==
  ("0" :> 0) @@ ("1" :> 1) @@ ("2" :> 2) @@ ("3" :> 3) @@ ("4" :> 4) @@
  ("5" :> 5) @@ ("6" :> 6) @@ ("7" :> 7) @@ ("8" :> 8) @@ ("9" :> 9)
isDigit(c) == c \in DOMAIN DigitValue

RECURSIVE trimStart(_)
trimStart(str) == IF str # <<>> /\ Head(str) = " " THEN trimStart(Tail(str)) ELSE str
RECURSIVE leadingDigits(_)
leadingDigits(str) ==
  IF str # <<>> /\ isDigit(Head(str)) THEN <<Head(str)>> \o leadingDigits(Tail(str)) ELSE <<>>
RECURSIVE decimal(_)
decimal(digits) ==
  IF digits = <<>> THEN 0
  ELSE 10 * decimal(SubSeq(digits, 1, Len(digits) - 1)) + DigitValue[digits[Len(digits)]]

NaN == [nan |-> TRUE, value |-> 0]
\* parseInt(str, 10): leading white space, a sign, then the longest run of
\* digits; whatever follows is ignored; NaN when there is no digit.
parseInt(str) ==
  LET t == trimStart(str)
      negative == t # <<>> /\ Head(t) = "-"
      u == IF t # <<>> /\ Head(t) \in {"-", "+"} THEN Tail(t) ELSE t
      digits == leadingDigits(u)
  IN IF digits = <<>> THEN NaN
     ELSE [nan |-> FALSE, value |-> IF negative THEN 0 - decimal(digits) ELSE decimal(digits)]

DEFAULT_CONFIG ==
  [memoryThreshold |-> 10, recentMessagesLimit |-> 6,
   sessionTimeoutHours |-> 24, maxSessions |-> 1000]

\* one setting: `if (raw) { parsed = parseInt(raw, 10); if (parsed > 0 && parsed <= max) ... }`
loadSetting(raw, max, default) ==
  IF raw = Undefined \/ raw = <<>> THEN default
  ELSE LET parsed == parseInt(raw) IN
       IF ~parsed.nan /\ parsed.value > 0 /\ parsed.value <= max THEN parsed.value ELSE default

loadMemoryConfig(e) ==
  [memoryThreshold |-> loadSetting(e.MEMORY_THRESHOLD, 100, DEFAULT_CONFIG.memoryThreshold),
   recentMessagesLimit |-> loadSetting(e.RECENT_MESSAGES_LIMIT, 20, DEFAULT_CONFIG.recentMessagesLimit),
   sessionTimeoutHours |-> loadSetting(e.SESSION_TIMEOUT_HOURS, 168, DEFAULT_CONFIG.sessionTimeoutHours),
   maxSessions |-> loadSetting(e.MAX_SESSIONS, 10000, DEFAULT_CONFIG.maxSessions)]

validateConfig(config) ==
  /\ config.memoryThreshold > 0
  /\ config.recentMessagesLimit > 0
  /\ config.sessionTimeoutHours > 0
  /\ config.maxSessions > 0
  /\ config.recentMessagesLimit < config.memoryThreshold

\* config-validator.ts validateMemoryConfig: the errors (warnings do not stop anything)
validateMemoryConfig(config) ==
  (IF config.memoryThreshold <= 0 THEN {"Memory threshold must be greater than 0"} ELSE {})
  \cup (IF config.recentMessagesLimit <= 0
        THEN {"Recent messages limit must be greater than 0"}
        ELSE IF config.recentMessagesLimit >= config.memoryThreshold
             THEN {"Recent messages limit must be less than memory threshold"} ELSE {})
  \cup (IF config.sessionTimeoutHours <= 0 THEN {"Session timeout must be greater than 0"} ELSE {})
  \cup (IF config.maxSessions <= 0 THEN {"Max sessions must be greater than 0"} ELSE {})

performConfigHealthCheck(config) ==
  IF validateMemoryConfig(config) # {} THEN "critical" ELSE "healthy"

\* The environment of the deployment that is modelled.
ModelEnv ==
  [MEMORY_THRESHOLD |-> <<"4">>, RECENT_MESSAGES_LIMIT |-> <<"2">>,
   SESSION_TIMEOUT_HOURS |-> <<"1">>, MAX_SESSIONS |-> <<"1">>]

NotLoaded == [none |-> TRUE]
NoTimer == 0
Stopped == [isRunning |-> FALSE, intervalId |-> NoTimer]

\* new CleanupScheduler(cleanupIntervalMinutes = 60); the checker's default
\* and the periods initializeMemorySystem asks for
MsPerMinute == 60000
DefaultIntervalMinutes == 60
CheckerIntervalMinutes == 120
NewCleanupScheduler(cleanupIntervalMinutes) ==
  [isRunning |-> FALSE, intervalId |-> NoTimer,
   cleanupIntervalMs |-> cleanupIntervalMinutes * MsPerMinute]

\* Nothing scheduled yet, nothing in the store.
Idle ==
  /\ sessions = <<>>
  /\ heap = <<>>
  /\ calls = {}
  /\ now = 0
  /\ nextMsg = 1
  /\ accepted = [s \in SessionIds |-> <<>>]
  /\ isInitialized = FALSE
  /\ cleanupScheduler = NewCleanupScheduler(DefaultIntervalMinutes)
  /\ corruptionChecker = Stopped
  /\ timers = {}
  /\ cleanupRuns = 0
  /\ errors = <<>>

Init ==
  /\ Idle
  /\ available \in BOOLEAN
  /\ lastOp = Returned("init", 0, "ok", NoResult)
  /\ env = ModelEnv
  /\ loaded = loadMemoryConfig(env)

\* addMessage up to its first await (or to its end when nothing is awaited).
AddMessage(sid) ==
  /\ nextMsg <= MaxMessages
  /\ LET g == getSession(sessions, heap, sid, now)
         r == g.ref
         h1 == [g.heap EXCEPT ![r] = pushMessage(@, nextMsg, now)]
         session == h1[r]
     IN /\ nextMsg' = nextMsg + 1
        /\ accepted' = [accepted EXCEPT ![sid] = Append(@, nextMsg)]
        /\ IF needsSummarization(session)
           THEN \* await this.triggerSummarization(sessionId)
                /\ Cardinality(calls) < MaxCalls
                /\ LET input == getMessagesToSummarize(session.messages)
                       pc == IF available /\ input # <<>> THEN "summarize" ELSE "resume"
                   IN Commit(g.sessions, h1, calls \cup
                        {[sessionId |-> sid, ref |-> r, msg |-> nextMsg, pc |-> pc,
                          input |-> IF pc = "summarize" THEN input ELSE <<>>]})
                /\ lastOp' = Returned("addMessage", sid, "pending", NoResult)
           ELSE \* sessionStorage.updateSession(sessionId, session)
                LET u == updateSession(g.sessions, h1, sid, r, now) IN
                /\ Commit(u.sessions, u.heap, calls)
                /\ lastOp' = Returned("addMessage", sid, "ok", NoResult)
  /\ UNCHANGED <<now, available, outside>>

\* summary-generator.ts generateSummary: on success a non-empty (trimmed) text,
\* identified here by the messages it was made from.
generateSummary(messages) == [covers |-> messages]

\* triggerSummarization lines 145-150: push the summary, keep the recent messages
applySummary(session, summary) ==
  [session EXCEPT !.summaries = Append(@, summary),
                  !.messages = getRecentMessages(session.messages)]

\* generateSummary resolved: triggerSummarization applies the summary to the
\* object it holds and returns; addMessage is resumed in a later turn.
SummarizeResolve(c) ==
  /\ c \in calls
  /\ c.pc = "summarize"
  /\ Commit(sessions, [heap EXCEPT ![c.ref] = applySummary(@, generateSummary(c.input))],
            (calls \ {c}) \cup {[c EXCEPT !.pc = "resume"]})
  /\ lastOp' = Returned("addMessage", c.sessionId, "pending", NoResult)
  /\ UNCHANGED <<now, nextMsg, available, accepted, outside>>

\* generateSummary rejected: the catch block of triggerSummarization (line 165)
\* reads `session`, which is scoped to the try block, so the handler itself
\* throws a ReferenceError; addMessage catches it, logs and rethrows (line 49),
\* skipping updateSession.
SummarizeReject(c) ==
  /\ c \in calls
  /\ c.pc = "summarize"
  /\ Commit(sessions, heap, calls \ {c})
  /\ lastOp' = Returned("addMessage", c.sessionId, "raised", NoResult)
  /\ UNCHANGED <<now, nextMsg, available, accepted, outside>>

\* addMessage after `await this.triggerSummarization`: updateSession with the
\* object obtained before the await.
AddResume(c) ==
  /\ c \in calls
  /\ c.pc = "resume"
  /\ LET u == updateSession(sessions, heap, c.sessionId, c.ref, now) IN
     Commit(u.sessions, u.heap, calls \ {c})
  /\ lastOp' = Returned("addMessage", c.sessionId, "ok", NoResult)
  /\ UNCHANGED <<now, nextMsg, available, accepted, outside>>

\* mutant: the whole stored tail as recentMessages
contextOfWholeTail(session) ==
  [summaries |-> session.summaries,
   recentMessages |-> session.messages,
   totalMessages |-> session.messageCount]

\* getContext lines 61-67
contextOf(session) ==
  [summaries |-> session.summaries,
   recentMessages |-> sliceLast(session.messages, memoryConfig.recentMessagesLimit),
   totalMessages |-> session.messageCount]

GetContext(sid) ==
  /\ LET g == getSession(sessions, heap, sid, now) IN
     /\ Commit(g.sessions, g.heap, calls)
     /\ lastOp' = Returned("getContext", sid, "ok", contextOf(g.heap[g.ref]))
  /\ UNCHANGED <<now, nextMsg, available, accepted, outside>>

\* mutant: the fresh object keeps the old message count
storageClearSessionKeepCount(map, h, sid, t) ==
  LET r == NewRef(h)
      count == IF MapHas(map, sid) THEN h[MapGet(map, sid)].messageCount ELSE 0
  IN [sessions |-> MapSet(map, sid, r),
      heap |-> Alloc(h, r, [createEmptySession(sid, t) EXCEPT !.messageCount = count])]

\* mutant: clearing empties the whole Map
storageClearSessionEverything(map, h, sid, t) ==
  LET r == NewRef(h) IN
  [sessions |-> <<[id |-> sid, ref |-> r]>>, heap |-> Alloc(h, r, createEmptySession(sid, t))]

\* SessionStorage.clearSession: a fresh empty object under the same key
storageClearSession(map, h, sid, t) ==
  LET r == NewRef(h) IN
  [sessions |-> MapSet(map, sid, r), heap |-> Alloc(h, r, createEmptySession(sid, t))]

ClearSession(sid) ==
  /\ LET u == storageClearSession(sessions, heap, sid, now) IN
     Commit(u.sessions, u.heap, calls)
  /\ accepted' = [accepted EXCEPT ![sid] = <<>>]
  /\ lastOp' = Returned("clearSession", sid, "ok",
                        IF MapHas(sessions, sid)
                        THEN [previous |-> contextOf(heap[MapGet(sessions, sid)])]
                        ELSE NoResult)
  /\ UNCHANGED <<now, nextMsg, available, outside>>

\* ---- eviction (session-storage.ts) ----
\* Array.from(this.sessions.values())
MapValues(map, h) == [i \in DOMAIN map |-> h[map[i].ref]]

\* mutant: a session exactly at the timeout counts as inactive
getInactiveSessionsInclusive(map, h, t) ==
  SelectSeq(MapValues(map, h),
            LAMBDA session : (t - session.lastActivity) >= memoryConfig.sessionTimeoutHours)

getInactiveSessions(map, h, t) ==
  SelectSeq(MapValues(map, h),
            LAMBDA session : (t - session.lastActivity) > memoryConfig.sessionTimeoutHours)

\* delete every session of `list` (by its sessionId), counting the deletions
RECURSIVE deleteAll(_, _)
deleteAll(map, list) ==
  IF list = <<>> THEN [sessions |-> map, removed |-> 0]
  ELSE LET rest == deleteAll(MapDelete(map, Head(list).sessionId), Tail(list))
           hit == IF MapHas(map, Head(list).sessionId) THEN 1 ELSE 0
       IN [sessions |-> rest.sessions, removed |-> rest.removed + hit]

\* mutant: the inactivity pass removes nothing
cleanupInactiveSessionsSkipped(map, h, t) == [sessions |-> map, removed |-> 0]

cleanupInactiveSessions(map, h, t) == deleteAll(map, getInactiveSessions(map, h, t))

\* mutant: no sort, the Map's insertion order
sortByInsertion(list) == list

\* Array.prototype.sort by lastActivity ascending (stable)
RECURSIVE sortByActivity(_)
sortByActivity(list) ==
  IF list = <<>> THEN <<>>
  ELSE LET x == list[Len(list)]
           sorted == sortByActivity(SubSeq(list, 1, Len(list) - 1))
           before == SelectSeq(sorted, LAMBDA y : y.lastActivity <= x.lastActivity)
           after == SelectSeq(sorted, LAMBDA y : y.lastActivity > x.lastActivity)
       IN before \o <<x>> \o after

enforceSessionLimit(map, h) ==
  IF Len(map) <= memoryConfig.maxSessions
  THEN [sessions |-> map, removed |-> 0]
  ELSE deleteAll(map, SubSeq(sortByActivity(MapValues(map, h)), 1,
                             Len(map) - memoryConfig.maxSessions))

\* bookkeeping for the ids a cleanup removed
Evicted(map) == MapKeys(sessions) \ MapKeys(map)
AfterEviction(map, op, result) ==
  /\ Commit(map, heap, calls)
  /\ accepted' = [s \in SessionIds |-> IF s \in Evicted(map) THEN <<>> ELSE accepted[s]]
  /\ lastOp' = Returned(op, 0, "ok", result)
  /\ UNCHANGED <<now, nextMsg, available>>

\* sessionStorage.cleanupInactiveSessions()
StoreCleanupInactive ==
  LET u == cleanupInactiveSessions(sessions, heap, now) IN
  /\ AfterEviction(u.sessions, "storage.cleanupInactiveSessions", [removed |-> u.removed])
  /\ UNCHANGED outside

\* sessionStorage.enforceSessionLimit()
StoreEnforceLimit ==
  LET u == enforceSessionLimit(sessions, heap) IN
  /\ AfterEviction(u.sessions, "storage.enforceSessionLimit", [removed |-> u.removed])
  /\ UNCHANGED outside

\* memoryManager.cleanupInactiveSessions(): inactivity first, then the limit
CleanupInactiveSessions ==
  LET u == cleanupInactiveSessions(sessions, heap, now)
      v == enforceSessionLimit(u.sessions, heap)
  IN /\ AfterEviction(v.sessions, "cleanupInactiveSessions",
                      [removedCount |-> u.removed, limitRemovedCount |-> v.removed])
     /\ UNCHANGED outside

\* time passes
Tick ==
  /\ now < MaxTime
  /\ now' = now + 1
  /\ UNCHANGED <<sessions, heap, calls, nextMsg, available, lastOp, accepted, outside>>

\* The calls of the memory manager's interface.
Api ==
  \/ \E sid \in SessionIds : AddMessage(sid)
  \/ \E sid \in SessionIds : GetContext(sid)
  \/ \E sid \in SessionIds : ClearSession(sid)

\* The cleanup scheduler and direct users of the store.
Cleanup ==
  \/ StoreCleanupInactive
  \/ StoreEnforceLimit
  \/ CleanupInactiveSessions

\* A suspended addMessage goes on.
Continue ==
  \/ \E c \in calls : SummarizeResolve(c)
  \/ \E c \in calls : SummarizeReject(c)
  \/ \E c \in calls : AddResume(c)

\* The whole program: requests overlap freely, cleanup runs at any time.
Next == Api \/ Cleanup \/ Continue \/ Tick

Spec == Init /\ [][Next]_vars

\* Overlapping calls of the manager's interface, no cleanup.
NextApi == Api \/ Continue

SpecApi == Init /\ [][NextApi]_vars

\* Overlapping addMessage calls and nothing else.
NextAdds == (\E sid \in SessionIds : AddMessage(sid)) \/ Continue

SpecAdds == Init /\ [][NextAdds]_vars

\* Sequential use of the interface: a call starts only when no addMessage is
\* suspended.
NextSeq == (calls = {} /\ Api) \/ Continue

SpecSeq == Init /\ [][NextSeq]_vars

\* Sequential use with a summarizer that never fails.
NextSeqOk ==
  \/ (calls = {} /\ Api)
  \/ \E c \in calls : SummarizeResolve(c)
  \/ \E c \in calls : AddResume(c)

SpecSeqOk == Init /\ [][NextSeqOk]_vars

\* The cleanup scheduler against sessions that are only touched (no messages).
NextStore ==
  \/ \E sid \in SessionIds : GetContext(sid)
  \/ \E sid \in SessionIds : ClearSession(sid)
  \/ Cleanup
  \/ Tick

SpecStore == Init /\ [][NextStore]_vars

\* ---- corruption-recovery.ts ----
\* Damaged values.  A record is damaged in place by whoever holds the object;
\* the values stand for what the guard tests: a `messages` (NotAnArray) or `summaries`
\* (NotAnArrayEither) for which Array.isArray is false, a message that fails validateMessage (the
\* message with its number negated: role or timestamp missing), a summary with
\* empty text (it covers nothing), an Invalid Date.
NotAnArray == <<0>>
NotAnArrayEither == <<[covers |-> <<0>>]>>
InvalidDate == 0 - 1
isArray(x) == x # NotAnArray
isArraySummaries(x) == x # NotAnArrayEither
validDate(d) == d # InvalidDate

validateMessage(m) == m > 0
validSummary(summary) == summary.covers # <<>>

\* Values of the wrong type: a sessionId that is not a string, a lastActivity
\* that is not a Date object, a messageCount that is not a number.
NotAString == 0
NotADate == 0 - 2
NotANumber == 0 - 1

\* Falsy session ids in a record: the empty string, and undefined.  The id
\* that repairSessionData generates is none of the ids in use.
EmptyId == 0 - 1
MissingId == 0 - 2
RecoveredId == NumSessions + 1

\* Object.freeze(session): a frozen object keeps its properties; an
\* assignment to one of them raises a TypeError (module code is strict).
isFrozen(obj) == "frozen" \in DOMAIN obj
freeze(obj) == [f \in DOMAIN obj \cup {"frozen"} |-> IF f = "frozen" THEN TRUE ELSE obj[f]]

\* mutant: only the two arrays are looked at
validateSessionDataArraysOnly(data) ==
  isArray(data.messages) /\ isArraySummaries(data.summaries)

\* utils.ts validateSessionData (an Invalid Date is still `instanceof Date`)
validateSessionData(data) ==
  /\ data.sessionId \notin {NotAString, MissingId}
  /\ isArray(data.messages)
  /\ isArraySummaries(data.summaries)
  /\ data.lastActivity # NotADate
  /\ data.messageCount # NotANumber

validateSessionIntegrity(session) ==
  IF ~validateSessionData(session)
  THEN [isValid |-> FALSE, issues |-> {"Invalid session data structure"}]
  ELSE LET issues ==
             (IF session.sessionId = EmptyId
              THEN {"Invalid or missing session ID"} ELSE {})
             \cup
             (IF \E i \in DOMAIN session.messages : ~validateMessage(session.messages[i])
              THEN {"Invalid message"} ELSE {})
             \cup (IF \E i \in DOMAIN session.summaries : ~validSummary(session.summaries[i])
                   THEN {"Invalid summary"} ELSE {})
             \cup (IF session.messageCount # Len(session.messages)
                   THEN {"Message count mismatch"} ELSE {})
             \cup (IF ~validDate(session.lastActivity)
                   THEN {"Invalid last activity timestamp"} ELSE {})
       IN [isValid |-> issues = {}, issues |-> issues]

\* mutant: the repair resets the messages
repairSessionDataDropAll(session, t) ==
  LET summaries == IF isArraySummaries(session.summaries)
                   THEN SelectSeq(session.summaries, validSummary) ELSE <<>>
  IN [session EXCEPT !.messages = <<>>, !.summaries = summaries,
                     !.messageCount = 0,
                     !.lastActivity = IF validDate(@) THEN @ ELSE t]

\* repairSessionData: a copy of the record with the invalid parts dropped
repairSessionData(session, t) ==
  LET messages == IF isArray(session.messages)
                  THEN SelectSeq(session.messages, validateMessage) ELSE <<>>
      summaries == IF isArraySummaries(session.summaries)
                   THEN SelectSeq(session.summaries, validSummary) ELSE <<>>
  IN [session EXCEPT !.sessionId = IF @ \in {EmptyId, MissingId} THEN RecoveredId ELSE @,
                     !.messages = messages, !.summaries = summaries,
                     !.messageCount = Len(messages),
                     !.lastActivity = IF validDate(@) /\ @ # NotADate THEN @ ELSE t]

\* repairSessionData: the actions it lists
repairActions(session) ==
  (IF session.sessionId \in {EmptyId, MissingId} THEN {"Generated new session ID"} ELSE {})
  \cup (IF ~isArray(session.messages) THEN {"Reset messages array"}
        ELSE IF \E i \in DOMAIN session.messages : ~validateMessage(session.messages[i])
        THEN {"Removed invalid messages"} ELSE {})
  \cup (IF ~isArraySummaries(session.summaries) THEN {"Reset summaries array"}
        ELSE IF \E i \in DOMAIN session.summaries : ~validSummary(session.summaries[i])
        THEN {"Removed invalid summaries"} ELSE {})
  \cup (IF session.messageCount # Len(repairSessionData(session, 0).messages)
        THEN {"Corrected message count"} ELSE {})
  \cup (IF ~validDate(session.lastActivity) \/ session.lastActivity = NotADate
        THEN {"Reset last activity timestamp"} ELSE {})

\* mutant: the record is not put into the Map
storeNewDropped(map, h, sid, obj, t) == [sessions |-> map, heap |-> h]

\* sessionStorage.updateSession(sessionId, <a new object>)
storeNew(map, h, sid, obj, t) ==
  LET r == NewRef(h) IN
  [sessions |-> MapSet(map, sid, r), heap |-> Alloc(h, r, updateSessionActivity(obj, t))]

\* sessionStorage.updateSession(sessionId, <a new object>) with its check:
\* it raises on a record that fails validateSessionData
updateSessionChecked(map, h, sid, obj, t) ==
  IF ~validateSessionData(obj)
  THEN [thrown |-> TRUE, sessions |-> map, heap |-> h]
  ELSE LET u == storeNew(map, h, sid, obj, t) IN
       [thrown |-> FALSE, sessions |-> u.sessions, heap |-> u.heap]

NoIssues == [isCorrupted |-> FALSE, issues |-> {}, recovered |-> FALSE, recoveryActions |-> {}]

withReport(u, report) ==
  [thrown |-> u.thrown, sessions |-> u.sessions, heap |-> u.heap, report |-> report]

\* lines 182-201: the record is invalid; the repaired copy is stored when it
\* is valid, a fresh record otherwise
recoverInvalid(g, session, validation, repairedIsValid, sid, t) ==
  withReport(
    IF repairedIsValid
    THEN updateSessionChecked(g.sessions, g.heap, sid, repairSessionData(session, t), t)
    ELSE updateSessionChecked(g.sessions, g.heap, sid, createEmptySession(sid, t), t),
    [isCorrupted |-> TRUE, issues |-> validation.issues, recovered |-> TRUE,
     recoveryActions |-> IF repairedIsValid THEN repairActions(session)
                         ELSE {"Complete session reset - repair failed"}])

\* lines 176-205: the record that getSession returned is validated
recoverExisting(g, session, validation, sid, t) ==
  IF validation.isValid
  THEN [thrown |-> FALSE, sessions |-> g.sessions, heap |-> g.heap, report |-> NoIssues]
  ELSE recoverInvalid(g, session, validation,
                      validateSessionIntegrity(repairSessionData(session, t)).isValid, sid, t)

recoverTouched(g, sid, t) ==
  recoverExisting(g, g.heap[g.ref], validateSessionIntegrity(g.heap[g.ref]), sid, t)

\* detectAndRecoverCorruption, the body of its try block
recoverBody(map, h, sid, t) ==
  IF ~MapHas(map, sid)
  THEN withReport(updateSessionChecked(map, h, sid, createEmptySession(sid, t), t),
                  [isCorrupted |-> FALSE, issues |-> {"Session does not exist"},
                   recovered |-> TRUE, recoveryActions |-> {"Created new empty session"}])
  ELSE IF isFrozen(h[MapGet(map, sid)])
  THEN [thrown |-> TRUE, sessions |-> map, heap |-> h, report |-> NoIssues]
  ELSE recoverTouched(getSession(map, h, sid, t), sid, t)

\* lines 218-225: the reset in the catch block
emergencyReset(u, report) ==
  [sessions |-> u.sessions, heap |-> u.heap, raised |-> FALSE,
   report |-> [report EXCEPT
                 !.recovered = ~u.thrown,
                 !.recoveryActions =
                   IF u.thrown THEN {"Failed to recover session"}
                   ELSE {"Emergency session reset due to recovery error"}]]

\* Its catch block logs the error and resets the session; the report keeps
\* what the try block had written into it before the error.
recoverCatch(body, sid, t) ==
  IF ~body.thrown
  THEN [sessions |-> body.sessions, heap |-> body.heap, report |-> body.report,
        raised |-> FALSE]
  ELSE emergencyReset(
         updateSessionChecked(body.sessions, body.heap, sid, createEmptySession(sid, t), t),
         body.report)

\* detectAndRecoverCorruption: it has no await inside, so it runs as one step.
detectAndRecoverCorruption(map, h, sid, t) ==
  recoverCatch(recoverBody(map, h, sid, t), sid, t)

DetectAndRecover(sid) ==
  /\ LET u == detectAndRecoverCorruption(sessions, heap, sid, now) IN
     /\ Commit(u.sessions, u.heap, calls)
     /\ lastOp' = Returned("detectAndRecoverCorruption", sid,
                            IF u.raised THEN "raised" ELSE "ok", u.report)
  /\ UNCHANGED <<now, nextMsg, available, accepted, outside>>

\* performSystemCorruptionCheck: detectAndRecoverCorruption over the ids in
\* the Map.  Each `await` in the loop is of an already settled promise, so the
\* loop goes on in microtasks of the timer's turn: no other turn comes between.
RECURSIVE sweepFrom(_, _, _, _)
sweepFrom(map, h, ids, t) ==
  IF ids = <<>>
  THEN [sessions |-> map, heap |-> h, corruptedSessions |-> 0, recoveredSessions |-> 0]
  ELSE LET u == detectAndRecoverCorruption(map, h, Head(ids), t)
           rest == sweepFrom(u.sessions, u.heap, Tail(ids), t)
       IN [sessions |-> rest.sessions, heap |-> rest.heap,
           corruptedSessions |-> rest.corruptedSessions + (IF u.report.isCorrupted THEN 1 ELSE 0),
           recoveredSessions |-> rest.recoveredSessions + (IF u.report.recovered THEN 1 ELSE 0)]

getAllSessionIds(map) == [i \in DOMAIN map |-> map[i].id]

PerformSystemCorruptionCheck ==
  /\ LET u == sweepFrom(sessions, heap, getAllSessionIds(sessions), now) IN
     /\ Commit(u.sessions, u.heap, calls)
     /\ lastOp' = Returned("performSystemCorruptionCheck", 0, "ok",
                           [totalSessions |-> Len(sessions),
                            corruptedSessions |-> u.corruptedSessions,
                            recoveredSessions |-> u.recoveredSessions])
  /\ UNCHANGED <<now, nextMsg, available, accepted, outside>>

\* A stored record is damaged in place (by any holder of the object).
Damaged(session) ==
  {[session EXCEPT !.messages = NotAnArray],
   [session EXCEPT !.summaries = NotAnArrayEither],
   [session EXCEPT !.lastActivity = InvalidDate]}
  \cup (IF isArray(session.messages)
        THEN {[session EXCEPT !.messages[i] = 0 - @] :
                i \in {j \in DOMAIN session.messages : validateMessage(session.messages[j])}}
        ELSE {})
  \cup (IF isArraySummaries(session.summaries)
        THEN {[session EXCEPT !.summaries[i] = [covers |-> <<>>]] : i \in DOMAIN session.summaries}
             \cup (IF session.summaries = <<>>
                   THEN {[session EXCEPT !.summaries = <<[covers |-> <<>>]>>]} ELSE {})
        ELSE {})

Corrupt(sid) ==
  /\ MapHas(sessions, sid)
  /\ \E damaged \in Damaged(heap[MapGet(sessions, sid)]) :
       /\ damaged # heap[MapGet(sessions, sid)]
       /\ Commit(sessions, [heap EXCEPT ![MapGet(sessions, sid)] = damaged], calls)
  /\ lastOp' = Returned("corrupt", sid, "ok", NoResult)
  /\ UNCHANGED <<now, nextMsg, available, accepted, outside>>

Intact(sid) ==
  MapHas(sessions, sid) => validateSessionIntegrity(heap[MapGet(sessions, sid)]).issues
                             \subseteq {"Message count mismatch"}

\* The guard at work: one conversation (session 1) is filled one call at a
\* time, records get damaged one at a time, and the guard runs on a damaged
\* record before the record is used again.
NextGuard ==
  \/ \E sid \in {1} : calls = {} /\ Intact(sid) /\ AddMessage(sid)
  \/ \E c \in calls : SummarizeResolve(c)
  \/ \E c \in calls : AddResume(c)
  \/ \E sid \in SessionIds : calls = {} /\ (\A s \in SessionIds : Intact(s)) /\ Corrupt(sid)
  \/ \E sid \in SessionIds : calls = {} /\ DetectAndRecover(sid)
  \/ calls = {} /\ PerformSystemCorruptionCheck
  \/ (\A sid \in SessionIds : Intact(sid)) /\ Tick

SpecGuard == Init /\ [][NextGuard]_vars

\* A holder of the stored object overwrites its sessionId, or freezes it.
CorruptId(sid) ==
  /\ MapHas(sessions, sid)
  /\ \E id \in {NotAString, EmptyId, MissingId} :
       Commit(sessions, [heap EXCEPT ![MapGet(sessions, sid)].sessionId = id], calls)
  /\ lastOp' = Returned("corrupt", sid, "ok", NoResult)
  /\ UNCHANGED <<now, nextMsg, available, accepted, outside>>

Freeze(sid) ==
  /\ MapHas(sessions, sid)
  /\ Commit(sessions, [heap EXCEPT ![MapGet(sessions, sid)] = freeze(@)], calls)
  /\ lastOp' = Returned("freeze", sid, "ok", NoResult)
  /\ UNCHANGED <<now, nextMsg, available, accepted, outside>>

Usable(sid) ==
  MapHas(sessions, sid) => (Intact(sid) /\ ~isFrozen(heap[MapGet(sessions, sid)]))

\* The guard called for one id at a time: a conversation is filled one call
\* at a time, a record is damaged or frozen, and the guard runs on it before
\* the record is used again.
NextRecover ==
  \/ \E sid \in {1} : calls = {} /\ Usable(sid) /\ AddMessage(sid)
  \/ \E c \in calls : SummarizeResolve(c)
  \/ \E c \in calls : AddResume(c)
  \/ \E sid \in SessionIds : calls = {} /\ (\A s \in SessionIds : Usable(s)) /\ Corrupt(sid)
  \/ \E sid \in SessionIds : calls = {} /\ (\A s \in SessionIds : Usable(s)) /\ CorruptId(sid)
  \/ \E sid \in SessionIds : calls = {} /\ (\A s \in SessionIds : Usable(s)) /\ Freeze(sid)
  \/ \E sid \in SessionIds : calls = {} /\ DetectAndRecover(sid)

SpecRecover == Init /\ [][NextRecover]_vars

\* Sequential use with the periodic corruption sweep; nothing damages a record.
NextSweep ==
  \/ (calls = {} /\ Api)
  \/ (calls = {} /\ PerformSystemCorruptionCheck)
  \/ Continue

SpecSweep == Init /\ [][NextSweep]_vars

\* Sequential use with a summarizer that never fails, and the periodic sweep.
NextSweepOk ==
  \/ (calls = {} /\ Api)
  \/ (calls = {} /\ PerformSystemCorruptionCheck)
  \/ \E c \in calls : SummarizeResolve(c)
  \/ \E c \in calls : AddResume(c)

SpecSweepOk == Init /\ [][NextSweepOk]_vars

\* Overlapping calls on two sessions, with the guard called on either.
NextIsolation ==
  \/ Api
  \/ Continue
  \/ \E sid \in SessionIds : DetectAndRecover(sid)

SpecIsolation == Init /\ [][NextIsolation]_vars

\* Conversations that are never cleared, while the cleanup runs at any time.
\* The rest of an addMessage after its await is a microtask: it runs before
\* any other request or timer is served (Settled); only the wait for
\* generateSummary lets other turns in.
Settled == \A c \in calls : c.pc # "resume"
NextLifecycle ==
  \/ \E sid \in SessionIds : Settled /\ AddMessage(sid)
  \/ \E sid \in SessionIds : Settled /\ GetContext(sid)
  \/ \E c \in calls : Settled /\ SummarizeResolve(c)
  \/ \E c \in calls : Settled /\ SummarizeReject(c)
  \/ \E c \in calls : AddResume(c)
  \/ Settled /\ CleanupInactiveSessions
  \/ Settled /\ Tick

SpecLifecycle == Init /\ [][NextLifecycle]_vars

\* ---- cleanup-scheduler.ts (in cleanup-utils.ts), CorruptionChecker, initialize.ts ----
\* setInterval returns a handle that is not in use.
NewTimer(ts) == CHOOSE id \in 1..MaxTimers : id \notin {t.id : t \in ts}
\* mutant: every timer is armed with the default period
setIntervalForDefault(ts, task, ms) ==
  ts \cup {[id |-> NewTimer(ts), task |-> task, period |-> DefaultIntervalMinutes * MsPerMinute]}

setIntervalFor(ts, task, ms) == ts \cup {[id |-> NewTimer(ts), task |-> task, period |-> ms]}
\* mutant: the interval is not cleared
clearIntervalForgotten(ts, intervalId) == ts

\* clearInterval(intervalId), guarded by `if (this.intervalId)`
clearIntervalOf(ts, intervalId) == {t \in ts : t.id # intervalId}

\* mutant: a timer that fires once (setTimeout)
afterFiringOnce(ts, t) == ts \ {t}

\* setInterval: the timer stays armed after its callback has run
afterFiring(ts, t) == ts

\* SessionStorage.getStats: the sums and the activity range (null when empty)
Null == [null |-> TRUE]
\* mutant: the stored tails are counted instead of messageCount
RECURSIVE sumMessagesLength(_)
sumMessagesLength(list) ==
  IF list = <<>> THEN 0 ELSE Len(Head(list).messages) + sumMessagesLength(Tail(list))
\* sessions.reduce((sum, session) => sum + session.messageCount, 0)
RECURSIVE sumMessageCount(_)
sumMessageCount(list) ==
  IF list = <<>> THEN 0 ELSE Head(list).messageCount + sumMessageCount(Tail(list))
\* sessions.reduce((sum, session) => sum + session.summaries.length, 0)
RECURSIVE sumSummariesLength(_)
sumSummariesLength(list) ==
  IF list = <<>> THEN 0 ELSE Len(Head(list).summaries) + sumSummariesLength(Tail(list))
getStats(map, h) ==
  LET all == MapValues(map, h)
      activities == {all[i].lastActivity : i \in DOMAIN all}
  IN IF all = <<>>
     THEN [totalSessions |-> 0, totalMessages |-> 0, totalSummaries |-> 0,
           oldestSession |-> Null, newestSession |-> Null]
     ELSE [totalSessions |-> Len(all),
           totalMessages |-> sumMessageCount(all),
           totalSummaries |-> sumSummariesLength(all),
           oldestSession |-> [time |-> CHOOSE a \in activities : \A b \in activities : a <= b],
           newestSession |-> [time |-> CHOOSE a \in activities : \A b \in activities : a >= b]]

\* `session.summaries.length` in getStats: a TypeError when summaries is
\* undefined or null, no error for another value that is not an array.
getStatsThrows(map, h) ==
  IF \E i \in DOMAIN map : ~isArraySummaries(h[map[i].ref].summaries)
  THEN BOOLEAN ELSE {FALSE}

\* runCleanup up to its await: getMemoryStats, then
\* memoryManager.cleanupInactiveSessions(), which has no await inside, so the
\* whole cleanup happens in the call; what follows the await (the statistics
\* and the log line) is RunCleanupDone.  An exception ends the run in the
\* catch block, which logs.
RunCleanupBegin(op) ==
  /\ cleanupRuns < MaxRuns
  /\ \E thrown \in getStatsThrows(sessions, heap) :
       IF thrown
       THEN /\ lastOp' = Returned(op, 0, "caught", NoResult)
            /\ UNCHANGED <<sessions, heap, calls, now, nextMsg, available, accepted, cleanupRuns>>
       ELSE /\ LET u == cleanupInactiveSessions(sessions, heap, now)
                   v == enforceSessionLimit(u.sessions, heap)
               IN AfterEviction(v.sessions, op,
                                [removedCount |-> u.removed, limitRemovedCount |-> v.removed])
            /\ cleanupRuns' = cleanupRuns + 1

NothingHappens(op) ==
  /\ lastOp' = Returned(op, 0, "ok", NoResult)
  /\ UNCHANGED <<sessions, heap, calls, now, nextMsg, available, accepted, outside>>

\* CleanupScheduler.start()
SchedulerStart ==
  IF cleanupScheduler.isRunning
  THEN NothingHappens("cleanupScheduler.start")
  ELSE /\ RunCleanupBegin("cleanupScheduler.start")
       /\ timers' = setIntervalFor(timers, "cleanup", cleanupScheduler.cleanupIntervalMs)
       /\ cleanupScheduler' = [cleanupScheduler EXCEPT !.isRunning = TRUE,
                                                       !.intervalId = NewTimer(timers)]
       /\ UNCHANGED <<startup, errors, isInitialized, corruptionChecker>>

\* cleanupScheduler.start(60), as initialize.ts writes it: start() declares no
\* parameter, so the argument goes nowhere
SchedulerStartWith(intervalMinutes) == SchedulerStart

\* CleanupScheduler.stop()
SchedulerStop ==
  IF ~cleanupScheduler.isRunning
  THEN NothingHappens("cleanupScheduler.stop")
  ELSE /\ timers' = clearIntervalOf(timers, cleanupScheduler.intervalId)
       /\ cleanupScheduler' = [cleanupScheduler EXCEPT !.isRunning = FALSE,
                                                       !.intervalId = NoTimer]
       /\ lastOp' = Returned("cleanupScheduler.stop", 0, "ok", NoResult)
       /\ UNCHANGED <<sessions, heap, calls, now, nextMsg, available, accepted,
                      startup, errors, isInitialized, corruptionChecker, cleanupRuns>>

\* CleanupScheduler.setInterval(minutes): stop() and start() when running
SchedulerSetInterval(minutes) ==
  IF ~cleanupScheduler.isRunning
  THEN /\ cleanupScheduler' = [cleanupScheduler EXCEPT !.cleanupIntervalMs = minutes * MsPerMinute]
       /\ lastOp' = Returned("cleanupScheduler.setInterval", 0, "ok", NoResult)
       /\ UNCHANGED <<sessions, heap, calls, now, nextMsg, available, accepted,
                      startup, errors, isInitialized, corruptionChecker, timers, cleanupRuns>>
  ELSE /\ RunCleanupBegin("cleanupScheduler.setInterval")
       /\ LET cleared == clearIntervalOf(timers, cleanupScheduler.intervalId) IN
          /\ timers' = setIntervalFor(cleared, "cleanup", minutes * MsPerMinute)
          /\ cleanupScheduler' = [isRunning |-> TRUE, intervalId |-> NewTimer(cleared),
                                  cleanupIntervalMs |-> minutes * MsPerMinute]
       /\ UNCHANGED <<startup, errors, isInitialized, corruptionChecker>>

\* The interval of the cleanup scheduler fires.  A timer callback starts a new
\* turn, and the rest of a runCleanup is a microtask of the turn that began
\* it, so no run is unfinished when a timer fires.
SchedulerTick ==
  /\ \E t \in timers : t.task = "cleanup" /\ timers' = afterFiring(timers, t)
  /\ cleanupRuns = 0
  /\ RunCleanupBegin("cleanupScheduler.tick")
  /\ UNCHANGED <<startup, errors, isInitialized, cleanupScheduler, corruptionChecker>>

\* cleanupScheduler.runCleanup() called directly
RunCleanup ==
  /\ RunCleanupBegin("runCleanup")
  /\ UNCHANGED <<startup, errors, isInitialized, cleanupScheduler, corruptionChecker, timers>>

\* runCleanup after its await
RunCleanupDone ==
  /\ cleanupRuns > 0
  /\ cleanupRuns' = cleanupRuns - 1
  /\ lastOp' = Returned("runCleanup", 0, "done", NoResult)
  /\ UNCHANGED <<sessions, heap, calls, now, nextMsg, available, accepted,
                 startup, errors, isInitialized, cleanupScheduler, corruptionChecker, timers>>

\* CorruptionChecker.start(intervalMinutes): a timer, no immediate sweep
CheckerStart(intervalMinutes) ==
  IF corruptionChecker.isRunning
  THEN NothingHappens("corruptionChecker.start")
  ELSE /\ timers' = setIntervalFor(timers, "corruption", intervalMinutes * MsPerMinute)
       /\ corruptionChecker' = [isRunning |-> TRUE, intervalId |-> NewTimer(timers)]
       /\ lastOp' = Returned("corruptionChecker.start", 0, "ok", NoResult)
       /\ UNCHANGED <<sessions, heap, calls, now, nextMsg, available, accepted,
                      startup, errors, isInitialized, cleanupScheduler, cleanupRuns>>

\* CorruptionChecker.stop()
CheckerStop ==
  /\ timers' = clearIntervalOf(timers, corruptionChecker.intervalId)
  /\ corruptionChecker' = Stopped
  /\ lastOp' = Returned("corruptionChecker.stop", 0, "ok", NoResult)
  /\ UNCHANGED <<sessions, heap, calls, now, nextMsg, available, accepted,
                 startup, errors, isInitialized, cleanupScheduler, cleanupRuns>>

\* The interval of the corruption checker fires: one whole sweep in its turn.
CheckerTick ==
  /\ \E t \in timers : t.task = "corruption" /\ timers' = afterFiring(timers, t)
  /\ cleanupRuns = 0
  /\ LET u == sweepFrom(sessions, heap, getAllSessionIds(sessions), now) IN
     /\ Commit(u.sessions, u.heap, calls)
     /\ lastOp' = Returned("corruptionChecker.tick", 0, "ok",
                           [totalSessions |-> Len(sessions),
                            corruptedSessions |-> u.corruptedSessions,
                            recoveredSessions |-> u.recoveredSessions])
  /\ UNCHANGED <<now, nextMsg, available, accepted, startup, errors, isInitialized,
                 cleanupScheduler, corruptionChecker, cleanupRuns>>

\* initializeMemorySystem() on the server
InitializeMemorySystem ==
  /\ loaded # NotLoaded
  /\ IF isInitialized
     THEN /\ lastOp' = Returned("initializeMemorySystem", 0, "ok",
                                [success |-> TRUE, config |-> loaded])
          /\ UNCHANGED <<sessions, heap, calls, now, nextMsg, available, accepted, outside>>
     ELSE IF performConfigHealthCheck(loaded) = "critical"
     THEN /\ lastOp' = Returned("initializeMemorySystem", 0, "ok",
                                [success |-> FALSE, config |-> loaded])
          /\ UNCHANGED <<sessions, heap, calls, now, nextMsg, available, accepted, outside>>
     ELSE LET t1 == IF cleanupScheduler.isRunning THEN timers
                    ELSE setIntervalFor(timers, "cleanup", cleanupScheduler.cleanupIntervalMs)
              t2 == IF corruptionChecker.isRunning THEN t1
                    ELSE setIntervalFor(t1, "corruption", CheckerIntervalMinutes * MsPerMinute)
          IN /\ IF cleanupScheduler.isRunning
                THEN /\ lastOp' = Returned("initializeMemorySystem", 0, "ok",
                                           [success |-> TRUE, config |-> loaded])
                     /\ UNCHANGED <<sessions, heap, calls, now, nextMsg, available,
                                    accepted, cleanupScheduler, cleanupRuns>>
                ELSE /\ RunCleanupBegin("initializeMemorySystem")
                     /\ cleanupScheduler' = [cleanupScheduler EXCEPT
                                               !.isRunning = TRUE,
                                               !.intervalId = NewTimer(timers)]
             /\ corruptionChecker' =
                  IF corruptionChecker.isRunning THEN corruptionChecker
                  ELSE [isRunning |-> TRUE, intervalId |-> NewTimer(t1)]
             /\ timers' = t2
             /\ isInitialized' = TRUE
             /\ UNCHANGED <<startup, errors>>

\* shutdownMemorySystem()
ShutdownMemorySystem ==
  IF ~isInitialized
  THEN NothingHappens("shutdownMemorySystem")
  ELSE /\ timers' = clearIntervalOf(
                      IF cleanupScheduler.isRunning
                      THEN clearIntervalOf(timers, cleanupScheduler.intervalId) ELSE timers,
                      corruptionChecker.intervalId)
       /\ cleanupScheduler' = [cleanupScheduler EXCEPT !.isRunning = FALSE,
                                                       !.intervalId = NoTimer]
       /\ corruptionChecker' = Stopped
       /\ isInitialized' = FALSE
       /\ lastOp' = Returned("shutdownMemorySystem", 0, "ok", NoResult)
       /\ UNCHANGED <<sessions, heap, calls, now, nextMsg, available, accepted,
                      startup, errors, cleanupRuns>>

\* restartMemorySystem(): shutdownMemorySystem(), then initializeMemorySystem()
RestartMemorySystem ==
  /\ loaded # NotLoaded
  /\ LET cleared == IF isInitialized
                    THEN clearIntervalOf(
                           IF cleanupScheduler.isRunning
                           THEN clearIntervalOf(timers, cleanupScheduler.intervalId) ELSE timers,
                           corruptionChecker.intervalId)
                    ELSE timers
         cleanupRunning == ~isInitialized /\ cleanupScheduler.isRunning
         checkerRunning == ~isInitialized /\ corruptionChecker.isRunning
         t1 == IF cleanupRunning THEN cleared
               ELSE setIntervalFor(cleared, "cleanup", cleanupScheduler.cleanupIntervalMs)
         t2 == IF checkerRunning THEN t1
               ELSE setIntervalFor(t1, "corruption", CheckerIntervalMinutes * MsPerMinute)
     IN IF performConfigHealthCheck(loaded) = "critical"
        THEN /\ timers' = cleared
             /\ cleanupScheduler' = IF cleanupRunning THEN cleanupScheduler
                                    ELSE [cleanupScheduler EXCEPT !.isRunning = FALSE,
                                                                  !.intervalId = NoTimer]
             /\ corruptionChecker' = IF checkerRunning THEN corruptionChecker ELSE Stopped
             /\ isInitialized' = FALSE
             /\ lastOp' = Returned("restartMemorySystem", 0, "ok",
                                   [success |-> FALSE, config |-> loaded])
             /\ UNCHANGED <<sessions, heap, calls, now, nextMsg, available, accepted,
                            startup, errors, cleanupRuns>>
        ELSE /\ IF cleanupRunning
                THEN /\ lastOp' = Returned("restartMemorySystem", 0, "ok",
                                           [success |-> TRUE, config |-> loaded])
                     /\ UNCHANGED <<sessions, heap, calls, now, nextMsg, available,
                                    accepted, cleanupScheduler, cleanupRuns>>
                ELSE /\ RunCleanupBegin("restartMemorySystem")
                     /\ cleanupScheduler' = [cleanupScheduler EXCEPT
                                               !.isRunning = TRUE,
                                               !.intervalId = NewTimer(cleared)]
             /\ corruptionChecker' =
                  IF checkerRunning THEN corruptionChecker
                  ELSE [isRunning |-> TRUE, intervalId |-> NewTimer(t1)]
             /\ timers' = t2
             /\ isInitialized' = TRUE
             /\ UNCHANGED <<startup, errors>>

\* SIGINT or SIGTERM: the shutdownHandler that initializeMemorySystem has
\* registered stops both schedulers and returns; the process goes on.  (The
\* handler is there once an initialization has succeeded; after a
\* shutdownMemorySystem it finds nothing to stop.)
ShutdownHandler ==
  /\ isInitialized
  /\ timers' = clearIntervalOf(
                 IF cleanupScheduler.isRunning
                 THEN clearIntervalOf(timers, cleanupScheduler.intervalId) ELSE timers,
                 corruptionChecker.intervalId)
  /\ cleanupScheduler' = [cleanupScheduler EXCEPT !.isRunning = FALSE,
                                                  !.intervalId = NoTimer]
  /\ corruptionChecker' = Stopped
  /\ lastOp' = Returned("shutdownHandler", 0, "ok", NoResult)
  /\ UNCHANGED <<sessions, heap, calls, now, nextMsg, available, accepted,
                 startup, errors, isInitialized, cleanupRuns>>

\* The system brought up and down, by calls and by signals, while sessions
\* are touched and the timers fire.
NextInit ==
  \/ \E sid \in SessionIds : GetContext(sid)
  \/ Tick
  \/ InitializeMemorySystem
  \/ ShutdownMemorySystem
  \/ RestartMemorySystem
  \/ ShutdownHandler
  \/ SchedulerTick
  \/ CheckerTick
  \/ RunCleanupDone

SpecInit == Init /\ [][NextInit]_vars

\* The background tasks over a store whose sessions are only touched.
NextScheduler ==
  \/ \E sid \in SessionIds : GetContext(sid)
  \/ Tick
  \/ SchedulerStart
  \/ SchedulerStop
  \/ SchedulerSetInterval(DefaultIntervalMinutes)
  \/ SchedulerTick
  \/ RunCleanup
  \/ RunCleanupDone
  \/ CheckerStart(DefaultIntervalMinutes)
  \/ CheckerStop
  \/ CheckerTick
  \/ InitializeMemorySystem
  \/ ShutdownMemorySystem

SpecScheduler == Init /\ [][NextScheduler]_vars

\* The cleanup scheduler started, stopped and re-timed with several periods.
IntervalMinutes == {30, 60, 120}
NextPeriod ==
  \/ \E sid \in SessionIds : GetContext(sid)
  \/ \E n \in IntervalMinutes : SchedulerStartWith(n)
  \/ SchedulerStop
  \/ \E minutes \in IntervalMinutes : SchedulerSetInterval(minutes)
  \/ SchedulerTick
  \/ RunCleanupDone
  \/ InitializeMemorySystem
  \/ ShutdownMemorySystem

SpecPeriod == Init /\ [][NextPeriod]_vars

\* ---- memory-manager.ts formatContextForLLM ----
\* A text is a sequence of pieces (literal strings and inserted values); the
\* two headers stand for the Ukrainian ones of the source.
SummariesHeader == "=== previous conversation (summaries) ==="
MessagesHeader == "=== recent messages ==="
NewLine == "\n"
numberToString(n) == <<"1", "2", "3">>[n]
\* Date.toLocaleString('uk-UA')
toLocaleString(d) == IF d = InvalidDate THEN "Invalid Date"
                     ELSE <<"01.01.2024, 10:00:00", "01.01.2024, 11:00:00">>[d + 1]

\* parts.join('\n')
RECURSIVE join(_)
join(parts) ==
  IF parts = <<>> THEN <<>>
  ELSE IF Len(parts) = 1 THEN parts[1]
  ELSE parts[1] \o <<NewLine>> \o join(Tail(parts))

\* mutant: the messages come before the summaries
formatContextMessagesFirst(context) ==
  join((IF context.recentMessages = <<>> THEN <<>>
        ELSE <<<<MessagesHeader>>>> \o
             [i \in DOMAIN context.recentMessages |->
                <<"[", toLocaleString(context.recentMessages[i].timestamp), "] ",
                  context.recentMessages[i].role, ": ", context.recentMessages[i].content>>])
       \o
       (IF context.summaries = <<>> THEN <<>>
        ELSE <<<<SummariesHeader>>>> \o
             [i \in DOMAIN context.summaries |->
                <<"summary ", numberToString(i), ": ", context.summaries[i]>>] \o
             << <<>> >>))

formatContextForLLM(context) ==
  join((IF context.summaries = <<>> THEN <<>>
        ELSE <<<<SummariesHeader>>>> \o
             [i \in DOMAIN context.summaries |->
                <<"summary ", numberToString(i), ": ", context.summaries[i]>>] \o
             << <<>> >>)
       \o
       (IF context.recentMessages = <<>> THEN <<>>
        ELSE <<<<MessagesHeader>>>> \o
             [i \in DOMAIN context.recentMessages |->
                <<"[", toLocaleString(context.recentMessages[i].timestamp), "] ",
                  context.recentMessages[i].role, ": ", context.recentMessages[i].content>>]))

\* Contexts to render.
MaxListed == 2
UpTo(S, n) == UNION {[1..k -> S] : k \in 0..n}
SummaryTexts == {"they met", "they argued"}
Messages == [role : {"user", "assistant"}, content : {"hello", "bye"}, timestamp : {0, 1}]
Contexts ==
  [summaries : UpTo(SummaryTexts, MaxListed), recentMessages : UpTo(Messages, MaxListed),
   totalMessages : {0, MaxMessages}]

InitFormat ==
  /\ Idle
  /\ available = TRUE
  /\ \E context \in Contexts : lastOp = Returned("getContext", 0, "ok", context)
  /\ env = ModelEnv
  /\ loaded = loadMemoryConfig(env)

Rendered == IF lastOp.op = "getContext" THEN lastOp.result ELSE lastOp.result.context

\* memoryManager.formatContextForLLM(context), at any time
FormatContext ==
  /\ lastOp' = Returned("formatContextForLLM", 0, "ok",
                        [context |-> Rendered, text |-> formatContextForLLM(Rendered),
                         at |-> now])
  /\ UNCHANGED <<sessions, heap, calls, now, nextMsg, available, accepted, outside>>

NextFormat ==
  \/ FormatContext
  \/ Tick

SpecFormat == InitFormat /\ [][NextFormat]_vars

\* ---- session-id-manager.ts and the chat route (app/api/chat/route.ts) ----
\* A session id is a string: a sequence of characters.
SessionPrefix == <<"s", "e", "s", "s", "i", "o", "n", "_">>
FallbackSuffix == <<"_", "f", "a", "l", "l", "b", "a", "c", "k">>
LowerCaseOrDigit ==
  {"a", "b", "c", "d", "e", "f", "g", "h", "i", "j", "k", "l", "m", "n", "o", "p", "q", "r", "s", "t", "u", "v", "w", "x", "y", "z",
   "0", "1", "2", "3", "4", "5", "6", "7", "8", "9"}

\* Date.now() as decimal digits, at the model's clock
dateNow(t) == <<"1", "7", "0", "0", "0", "0", "0", "0", "0", "0", "0", "0">> \o <<<<"0", "1", "2", "3">>[t + 1]>>
\* Math.random().toString(36).substr(2, 9) and .substr(2, 12)
RandomParts == {<<"k", "3", "j", "9", "x", "0", "q", "2", "m">>, <<"i">>}
ExtraRandomParts == {<<"p", "0", "o", "9", "i", "8", "u", "7", "y", "6", "t", "5">>}

\* utils.ts generateSessionId
generateSessionId(timestamp, random) == SessionPrefix \o timestamp \o <<"_">> \o random
fallbackId(timestamp, extraRandom) ==
  SessionPrefix \o timestamp \o <<"_">> \o extraRandom \o FallbackSuffix

\* /^session_\d+_[a-z0-9]+$/.test(sessionId)
sessionIdPattern(str) ==
  /\ Len(str) >= Len(SessionPrefix)
  /\ SubSeq(str, 1, Len(SessionPrefix)) = SessionPrefix
  /\ LET rest == SubSeq(str, Len(SessionPrefix) + 1, Len(str))
         digits == leadingDigits(rest)
         tail == SubSeq(rest, Len(digits) + 1, Len(rest))
     IN /\ digits # <<>>
        /\ tail # <<>>
        /\ Head(tail) = "_"
        /\ Len(tail) > 1
        /\ \A i \in 2..Len(tail) : tail[i] \in LowerCaseOrDigit

validateSessionId(sessionId) ==
  IF sessionId = <<>>
  THEN [isValid |-> FALSE, errors |-> {"Session ID is required"}]
  ELSE LET found ==
             (IF ~sessionIdPattern(sessionId)
              THEN {"Session ID has invalid format"} ELSE {})
             \cup (IF Len(sessionId) < 20 \/ Len(sessionId) > 50
                   THEN {"Session ID has invalid length"} ELSE {})
             \cup (IF \/ \E i \in 1..(Len(sessionId) - 1) :
                            sessionId[i] = "." /\ sessionId[i + 1] = "."
                      \/ \E i \in DOMAIN sessionId : sessionId[i] \in {"/", "\\"}
                   THEN {"Session ID contains invalid characters"} ELSE {})
       IN [isValid |-> found = {}, errors |-> found]

\* generateUniqueSessionId(maxAttempts): `attempts` are the ids that
\* generateSessionId returns in the loop, `fallback` the id built after it
generateUniqueSessionId(map, attempts, fallback) ==
  IF \E i \in DOMAIN attempts : ~MapHas(map, attempts[i])
  THEN attempts[CHOOSE i \in DOMAIN attempts :
                  /\ ~MapHas(map, attempts[i])
                  /\ \A j \in 1..(i - 1) : MapHas(map, attempts[j])]
  ELSE fallback

\* The default maxAttempts (10 in the source), scaled.
MaxAttempts == 2
Generated(t) == {generateSessionId(dateNow(t), random) : random \in RandomParts}

GenerateUniqueSessionId(maxAttempts) ==
  /\ \E attempts \in [1..maxAttempts -> Generated(now)], extraRandom \in ExtraRandomParts :
       lastOp' = Returned("generateUniqueSessionId", 0, "ok",
                          [id |-> generateUniqueSessionId(sessions, attempts,
                                                          fallbackId(dateNow(now), extraRandom))])
  /\ UNCHANGED <<sessions, heap, calls, now, nextMsg, available, accepted, outside>>

\* memoryManager.addMessage on a session that stays under the threshold: no
\* summarization, so it runs to its end at once
addMessageUnderThreshold(map, h, sid, m, t) ==
  LET g == getSession(map, h, sid, t)
      h1 == [g.heap EXCEPT ![g.ref] = pushMessage(@, m, t)]
  IN updateSession(g.sessions, h1, sid, g.ref, t)
messageCountOf(map, h, sid) == IF MapHas(map, sid) THEN h[MapGet(map, sid)].messageCount ELSE 0

\* What a client sends as sessionId: nothing, an id it was given, an id of
\* the right shape that is too short, a path.
NoId == <<>>
ProvidedIds ==
  {NoId, generateSessionId(dateNow(0), <<"k", "3", "j", "9", "x", "0", "q", "2", "m">>),
   <<"s", "e", "s", "s", "i", "o", "n", "_", "1", "_", "a">>, <<".", ".", "/", ".", ".", "/", "e", "t", "c", "/", "p", "a", "s", "s", "w", "d">>}

\* POST /api/chat.  `analytics`: the analytics engine answers the message;
\* `streamed`: the model's reply ("failed": generateContentStream raises,
\* "empty": no text, "text").  The message itself is a valid one.
Post(provided, analytics, streamed) ==
  \E attempts \in [1..MaxAttempts -> Generated(now)], extraRandom \in ExtraRandomParts :
    LET generated == generateUniqueSessionId(sessions, attempts,
                                             fallbackId(dateNow(now), extraRandom))
        sessionId == IF provided = NoId THEN generated ELSE provided
        one == addMessageUnderThreshold(sessions, heap, sessionId, nextMsg, now)
        two == addMessageUnderThreshold(one.sessions, one.heap, sessionId, nextMsg + 1, now)
    IN /\ messageCountOf(sessions, heap, sessionId) + 2 < memoryConfig.memoryThreshold
       /\ nextMsg + 1 <= MaxMessages
       /\ IF analytics
          THEN /\ Commit(two.sessions, two.heap, calls)
               /\ nextMsg' = nextMsg + 2
               /\ lastOp' = Returned("POST", 0, "analytics",
                                     [status |-> 200, sessionId |-> sessionId])
          ELSE IF provided # NoId /\ ~validateSessionId(provided).isValid
          THEN /\ lastOp' = Returned("POST", 0, "rejected",
                                     [status |-> 400, sessionId |-> provided])
               /\ UNCHANGED <<sessions, heap, calls, nextMsg>>
          ELSE IF streamed = "text"
          THEN /\ Commit(two.sessions, two.heap, calls)
               /\ nextMsg' = nextMsg + 2
               /\ lastOp' = Returned("POST", 0, "chat",
                                     [status |-> 200, sessionId |-> sessionId])
          ELSE /\ Commit(one.sessions, one.heap, calls)
               /\ nextMsg' = nextMsg + 1
               /\ lastOp' = Returned("POST", 0, "chat",
                                     [status |-> IF streamed = "failed" THEN 500 ELSE 200,
                                      sessionId |-> sessionId])
       /\ UNCHANGED <<now, available, accepted, outside>>

NextIds ==
  \/ \E maxAttempts \in 1..MaxAttempts : GenerateUniqueSessionId(maxAttempts)
  \/ \E provided \in ProvidedIds, analytics \in BOOLEAN, streamed \in {"failed", "empty", "text"} :
       Post(provided, analytics, streamed)

SpecIds == Init /\ [][NextIds]_vars

\* ---- error-handler.ts: MemoryErrorLogger and isMemorySystemHealthy ----
\* maxErrors (100 in the source), scaled; the clock counts hours.
MaxErrors == 12
RecentKept == 10
TenMinutes == 10
MinutesPerHour == 60
\* The errors that are logged come from one handler, handleSessionError.
ErrorTypes == {"session"}

\* MemoryErrorLogger.logError: push, keep the last maxErrors
logError(log, type, t) == sliceLast(Append(log, [type |-> type, timestamp |-> t]), MaxErrors)

\* MemoryErrorLogger.getStats
loggerGetStats(log) ==
  [totalErrors |-> Len(log), recentErrors |-> sliceLast(log, RecentKept)]

withinTenMinutes(error, t) == error.timestamp * MinutesPerHour > t * MinutesPerHour - TenMinutes
isCritical(error) == error.type \in {"storage", "api"}

\* isMemorySystemHealthy: errorRate = recentErrors.length / 10, compared
\* with 1 (here both sides times 10)
isMemorySystemHealthy(log, t) ==
  LET stats == loggerGetStats(log)
      recentErrors == SelectSeq(stats.recentErrors, LAMBDA error : withinTenMinutes(error, t))
      criticalErrors == SelectSeq(recentErrors, isCritical)
      issues == (IF Len(recentErrors) > 1 * 10 THEN {"High error rate"} ELSE {})
                \cup (IF Len(criticalErrors) > 3 THEN {"Multiple critical errors"} ELSE {})
  IN [healthy |-> issues = {}, issues |-> issues, errorRateTimesTen |-> Len(recentErrors)]

\* handleSessionError, handleStorageError, ...: each logs one error
LogError(type) ==
  /\ errors' = logError(errors, type, now)
  /\ lastOp' = Returned("logError", 0, "ok", NoResult)
  /\ UNCHANGED <<sessions, heap, calls, now, nextMsg, available, accepted,
                 startup, background>>

IsMemorySystemHealthy ==
  /\ lastOp' = Returned("isMemorySystemHealthy", 0, "ok",
                        [health |-> isMemorySystemHealthy(errors, now), at |-> now])
  /\ UNCHANGED <<sessions, heap, calls, now, nextMsg, available, accepted, outside>>

\* Errors logged over time, and the health check.
NextHealth ==
  \/ \E type \in ErrorTypes : LogError(type)
  \/ IsMemorySystemHealthy
  \/ Tick

SpecHealth == Init /\ [][NextHealth]_vars

\* memoryManager.getMemoryStats()
GetStats ==
  /\ lastOp' = Returned("getMemoryStats", 0, "ok", getStats(sessions, heap))
  /\ UNCHANGED <<sessions, heap, calls, now, nextMsg, available, accepted, outside>>

\* Sequential use with a summarizer that never fails, and the statistics.
NextStats ==
  \/ (calls = {} /\ Api)
  \/ (calls = {} /\ GetStats)
  \/ \E c \in calls : SummarizeResolve(c)
  \/ \E c \in calls : AddResume(c)

SpecStats == Init /\ [][NextStats]_vars

\* sessionStorage.updateSession(sessionId, sessionData) called with any record:
\* an Error when validateSessionData fails, else the record is touched and set.
\* (`accepted` follows addMessage only.)
Records ==
  [sessionId : {NotAString, 1},
   messages : {NotAnArray, <<>>, <<1>>},
   summaries : {NotAnArrayEither, <<[covers |-> <<1>>]>>},
   lastActivity : {NotADate, InvalidDate, 0},
   messageCount : {NotANumber, 1}]

StoreUpdateSession(sid, data) ==
  /\ IF ~validateSessionData(data)
     THEN /\ lastOp' = Returned("updateSession", sid, "raised", NoResult)
          /\ UNCHANGED <<sessions, heap, calls>>
     ELSE /\ LET u == storeNew(sessions, heap, sid, data, now) IN
             Commit(u.sessions, u.heap, calls)
          /\ lastOp' = Returned("updateSession", sid, "ok", NoResult)
  /\ UNCHANGED <<now, nextMsg, available, accepted, outside>>

\* Direct users of the store.
NextUpdate ==
  \/ \E sid \in SessionIds : GetContext(sid)
  \/ \E sid \in SessionIds : ClearSession(sid)
  \/ \E sid \in SessionIds, data \in Records : StoreUpdateSession(sid, data)
  \/ Tick

SpecUpdate == Init /\ [][NextUpdate]_vars

\* sessionStorage.hasSession(sessionId)
HasSession(sid) ==
  /\ lastOp' = Returned("hasSession", sid, "ok", [has |-> MapHas(sessions, sid)])
  /\ UNCHANGED <<sessions, heap, calls, now, nextMsg, available, accepted, outside>>

\* One conversation, and every other way of touching either session, one
\* call after the other, while the clock advances (also while
\* generateSummary is awaited).  updateSession is given an empty record or
\* the stored one, each with an old timestamp.
Resaved(sid) ==
  {createEmptySession(sid, 0)} \cup
  {[heap[MapGet(sessions, s)] EXCEPT !.lastActivity = 0] : s \in {sid} \cap MapKeys(sessions)}
NextActivity ==
  \/ calls = {} /\ AddMessage(1)
  \/ \E sid \in SessionIds : calls = {} /\ GetContext(sid)
  \/ \E sid \in SessionIds : calls = {} /\ ClearSession(sid)
  \/ \E sid \in SessionIds : \E data \in Resaved(sid) : calls = {} /\ StoreUpdateSession(sid, data)
  \/ \E sid \in SessionIds : calls = {} /\ HasSession(sid)
  \/ calls = {} /\ GetStats
  \/ Settled /\ Tick
  \/ \E c \in calls : Settled /\ SummarizeResolve(c)
  \/ \E c \in calls : Settled /\ SummarizeReject(c)
  \/ \E c \in calls : AddResume(c)

SpecActivity == Init /\ [][NextActivity]_vars

\* A stored record loses its summaries (the field becomes something that is
\* not an array), by whoever holds the object.
CorruptSummaries(sid) ==
  /\ MapHas(sessions, sid)
  /\ isArraySummaries(heap[MapGet(sessions, sid)].summaries)
  /\ Commit(sessions, [heap EXCEPT ![MapGet(sessions, sid)].summaries = NotAnArrayEither], calls)
  /\ lastOp' = Returned("corrupt", sid, "ok", NoResult)
  /\ UNCHANGED <<now, nextMsg, available, accepted, outside>>

\* The scheduled tasks over a store in which records get damaged.
NextFaults ==
  \/ \E sid \in SessionIds : ClearSession(sid)
  \/ \E sid \in SessionIds : CorruptSummaries(sid)
  \/ Tick
  \/ SchedulerStart
  \/ SchedulerStop
  \/ SchedulerTick
  \/ RunCleanupDone
  \/ CheckerStart(DefaultIntervalMinutes)
  \/ CheckerStop
  \/ CheckerTick

SpecFaults == Init /\ [][NextFaults]_vars

\* Startup under any environment: config.ts is evaluated, then the system is
\* initialized.  (The store is empty here, so the immediate cleanup of the
\* scheduler has nothing to remove.)
ThresholdValues ==
  {Undefined, <<>>, <<"a", "b", "c">>, <<"0">>, <<"3">>, <<"5">>, <<"1", "0", "0">>,
   <<"1", "0", "1">>, <<"1", "2", "a", "b", "c">>, <<"7", ".", "9">>, <<"-", "5">>}
LimitValues ==
  {Undefined, <<>>, <<"x">>, <<"0">>, <<"1">>, <<"4">>, <<"2", "0">>, <<"2", "1">>,
   <<"5", "x">>}
TimeoutValues == {Undefined, <<"1">>, <<"1", "6", "8">>, <<"1", "6", "9">>}
MaxSessionsValues ==
  {Undefined, <<"1", "0", "0", "0", "0">>, <<"1", "0", "0", "0", "1">>}
Envs ==
  [MEMORY_THRESHOLD : ThresholdValues, RECENT_MESSAGES_LIMIT : LimitValues,
   SESSION_TIMEOUT_HOURS : TimeoutValues, MAX_SESSIONS : MaxSessionsValues]

InitConfig ==
  /\ Idle
  /\ available = TRUE
  /\ lastOp = Returned("init", 0, "ok", NoResult)
  /\ env \in Envs
  /\ loaded = NotLoaded

\* `export const memoryConfig = loadMemoryConfig()`
LoadMemoryConfig ==
  /\ loaded = NotLoaded
  /\ loaded' = loadMemoryConfig(env)
  /\ lastOp' = Returned("loadMemoryConfig", 0, "ok", NoResult)
  /\ UNCHANGED <<sessions, heap, calls, now, nextMsg, available, accepted, env,
                 background, errors>>

NextConfig ==
  \/ LoadMemoryConfig
  \/ InitializeMemorySystem
  \/ ShutdownMemorySystem

SpecConfig == InitConfig /\ [][NextConfig]_vars

\* ======================= properties =======================
\* The record stored under a session id, before and after a step.
Stored(sid) == heap[MapGet(sessions, sid)]
StoredAfter(sid) == heap'[MapGet(sessions', sid)]
Elems(seq) == {seq[i] : i \in DOMAIN seq}

\* C1: addMessage never raises to its caller because of summarization: when
\* generateSummary throws, the addMessage call still completes successfully.
C1_AddMessageNeverRaises ==
  ~(lastOp.op = "addMessage" /\ lastOp.outcome = "raised")

\* C2: a degraded addMessage (summarizer unavailable, or generateSummary
\* failing) leaves the stored tail equal to the tail before the call followed
\* by the new message, the count one higher and the summaries unchanged; with
\* an unavailable summarizer every message ever added is still in the tail.
C2_PushStep(sid) ==
  LET had == MapHas(sessions, sid)
      before == IF had THEN Stored(sid).messages ELSE <<>>
      count == IF had THEN Stored(sid).messageCount ELSE 0
      sums == IF had THEN Stored(sid).summaries ELSE <<>>
  IN /\ StoredAfter(sid).messages = before \o <<nextMsg>>
     /\ StoredAfter(sid).messageCount = count + 1
     /\ StoredAfter(sid).summaries = sums
C2_FailStep(sid) ==
  /\ MapHas(sessions', sid)
  /\ StoredAfter(sid).messages = Stored(sid).messages
  /\ StoredAfter(sid).messageCount = Stored(sid).messageCount
  /\ StoredAfter(sid).summaries = Stored(sid).summaries
C2_Step ==
  /\ \A sid \in SessionIds : AddMessage(sid) => C2_PushStep(sid)
  /\ \A c \in calls : SummarizeReject(c) => C2_FailStep(c.sessionId)
  /\ \A c \in calls : (AddResume(c) /\ ~available) => C2_FailStep(c.sessionId)
C2_Unavailable ==
  ~available =>
    \A i \in DOMAIN sessions :
      /\ heap[sessions[i].ref].summaries = <<>>
      /\ heap[sessions[i].ref].messages = accepted[sessions[i].id]
      /\ heap[sessions[i].ref].messageCount = Len(accepted[sessions[i].id])
C2_DegradedAddKeepsEverything == []C2_Unavailable /\ [][C2_Step]_vars
C2_Witness ==
  /\ lastOp.op = "addMessage"
  /\ lastOp.outcome \in {"ok", "raised"}
  /\ MapHas(sessions, lastOp.sessionId)
  /\ Stored(lastOp.sessionId).summaries = <<>>
  /\ Len(Stored(lastOp.sessionId).messages) > memoryConfig.memoryThreshold

\* C3: under any interleaving of overlapping addMessage calls on a session no
\* message is lost: once all calls have finished, every accepted message is in
\* the stored tail or was input of a summary that is in summaries.
C3_NoMessageLost ==
  calls = {} =>
    \A i \in DOMAIN sessions :
      \A m \in Elems(accepted[sessions[i].id]) :
        \/ m \in Elems(heap[sessions[i].ref].messages)
        \/ \E k \in DOMAIN heap[sessions[i].ref].summaries :
             m \in Elems(heap[sessions[i].ref].summaries[k].covers)

\* C4: clearSession and addMessage are atomic units: when clearSession(id) ran
\* while an addMessage(id) was suspended (and nothing was added since), the
\* record stored when that addMessage returns is the empty record or a fresh
\* record holding only the one new message, with no summaries.
C4_ResumeAfterClear(c) ==
  (/\ AddResume(c)
   /\ MapHas(sessions, c.sessionId)
   /\ MapGet(sessions, c.sessionId) # c.ref
   /\ accepted[c.sessionId] = <<>>)
  => /\ StoredAfter(c.sessionId).summaries = <<>>
     /\ StoredAfter(c.sessionId).messages \in {<<>>, <<c.msg>>}
     /\ StoredAfter(c.sessionId).messageCount = Len(StoredAfter(c.sessionId).messages)
C4_ClearAndAddAreAtomic == [][\A c \in calls : C4_ResumeAfterClear(c)]_vars

\* C5: in sequential use with the summarizer available and succeeding, once a
\* session has received memoryThreshold or more messages, after each addMessage
\* the stored tail is exactly the recentMessagesLimit most recent messages in
\* order, and every pass has appended exactly one non-empty summary.
C5_TailAfterThreshold ==
  (available /\ calls = {}) =>
    \A i \in DOMAIN sessions :
      LET session == heap[sessions[i].ref]
          all == accepted[sessions[i].id]
      IN Len(all) >= memoryConfig.memoryThreshold =>
           /\ Len(session.messages) = memoryConfig.recentMessagesLimit
           /\ \A j \in DOMAIN session.messages :
                session.messages[j] = all[Len(all) - memoryConfig.recentMessagesLimit + j]
           /\ session.messageCount = Len(all)
           /\ Len(session.summaries) = Len(all) - memoryConfig.memoryThreshold + 1
           /\ \A k \in DOMAIN session.summaries : session.summaries[k].covers # <<>>
C5_Witness ==
  /\ available
  /\ calls = {}
  /\ \E i \in DOMAIN sessions :
       /\ Len(heap[sessions[i].ref].summaries) = 2
       /\ Len(heap[sessions[i].ref].messages) = memoryConfig.recentMessagesLimit
       /\ heap[sessions[i].ref].messageCount = memoryConfig.memoryThreshold + 1

C7_ContextIsEverythingAdded ==
  (lastOp.op = "getContext"
     /\ Len(accepted[lastOp.sessionId]) < memoryConfig.memoryThreshold) =>
    /\ lastOp.result.recentMessages = accepted[lastOp.sessionId]
    /\ lastOp.result.totalMessages = Len(accepted[lastOp.sessionId])

\* C7 (amended): for a session that received fewer than memoryThreshold
\* messages, getContext returns the last recentMessagesLimit of them (all of
\* them when there are no more than that), in order, and totalMessages is the
\* number added.
C7_ContextIsLastAdded ==
  (lastOp.op = "getContext"
     /\ Len(accepted[lastOp.sessionId]) < memoryConfig.memoryThreshold) =>
    LET all == accepted[lastOp.sessionId]
        recent == lastOp.result.recentMessages
    IN /\ Len(recent) = Min(Len(all), memoryConfig.recentMessagesLimit)
       /\ \A j \in DOMAIN recent : recent[j] = all[Len(all) - Len(recent) + j]
       /\ lastOp.result.totalMessages = Len(all)
C7_Witness ==
  /\ lastOp.op = "getContext"
  /\ Len(accepted[lastOp.sessionId]) = memoryConfig.memoryThreshold - 1
  /\ Len(lastOp.result.recentMessages) = memoryConfig.recentMessagesLimit
  /\ lastOp.result.totalMessages = memoryConfig.memoryThreshold - 1

C9_CapStep ==
  LET n == Len(sessions)
      K == memoryConfig.maxSessions
      kept == {i \in DOMAIN sessions : sessions[i].id \in MapKeys(sessions')}
      gone == DOMAIN sessions \ kept
      la(i) == heap[sessions[i].ref].lastActivity
  IN /\ lastOp'.result.removed = Cardinality(gone)
     /\ [j \in DOMAIN sessions' |-> sessions'[j].id]
          = [j \in 1..Cardinality(kept) |->
               sessions[CHOOSE i \in kept : Cardinality({l \in kept : l <= i}) = j].id]
     /\ n <= K => gone = {}
     /\ n > K =>
          /\ Cardinality(kept) = K
          /\ \A g \in gone : \A k \in kept :
               la(g) < la(k) \/ (la(g) = la(k) /\ g < k)
C9_CapEviction == [][StoreEnforceLimit => C9_CapStep]_vars
C9_Witness ==
  /\ lastOp.op = "storage.enforceSessionLimit"
  /\ lastOp.result.removed >= 1
  /\ Len(sessions) = memoryConfig.maxSessions

\* C10: cleanupInactiveSessions of the store removes exactly the sessions
\* whose lastActivity is more than sessionTimeoutHours before now and returns
\* their number; every touch (addMessage, getContext, update, clear) sets
\* lastActivity to now, so a session touched within the window stays.
C10_InactiveStep ==
  /\ \A i \in DOMAIN sessions :
       (sessions[i].id \in MapKeys(sessions'))
         <=> ~(now - heap[sessions[i].ref].lastActivity > memoryConfig.sessionTimeoutHours)
  /\ MapKeys(sessions') \subseteq MapKeys(sessions)
  /\ lastOp'.result.removed = Len(sessions) - Len(sessions')
C10_Touched(sid) ==
  MapHas(sessions', sid) /\ StoredAfter(sid).lastActivity = now
C10_Step ==
  /\ StoreCleanupInactive => C10_InactiveStep
  /\ \A sid \in SessionIds :
       (AddMessage(sid) \/ GetContext(sid) \/ ClearSession(sid)) => C10_Touched(sid)
  /\ \A c \in calls : AddResume(c) => C10_Touched(c.sessionId)
C10_InactivityEviction == [][C10_Step]_vars
C10_Witness ==
  /\ lastOp.op = "storage.cleanupInactiveSessions"
  /\ lastOp.result.removed = 1
  /\ Len(sessions) = 1

\* What the repair is to keep of a damaged list.
ValidMessagesOf(session) ==
  IF isArray(session.messages)
  THEN SelectSeq(session.messages, LAMBDA m : m > 0) ELSE <<>>
ValidSummariesOf(session) ==
  IF isArraySummaries(session.summaries)
  THEN SelectSeq(session.summaries, LAMBDA x : x.covers # <<>>) ELSE <<>>
WellFormed(session) ==
  /\ isArray(session.messages)
  /\ isArraySummaries(session.summaries)
  /\ \A i \in DOMAIN session.messages : session.messages[i] > 0
  /\ \A i \in DOMAIN session.summaries : session.summaries[i].covers # <<>>
  /\ session.lastActivity >= 0
C11_Heals(sid) ==
  /\ MapHas(sessions', sid)
  /\ WellFormed(StoredAfter(sid))
  /\ validateSessionIntegrity(StoredAfter(sid)).isValid
  /\ StoredAfter(sid).messages = ValidMessagesOf(Stored(sid))
  /\ StoredAfter(sid).summaries = ValidSummariesOf(Stored(sid))
C11_SecondReportsNothing(sid) ==
  validateSessionIntegrity(Stored(sid)).isValid =>
    /\ lastOp'.result.issues = {}
    /\ ~lastOp'.result.isCorrupted

C12_LifetimeCount ==
  lastOp.op = "getContext" =>
    lastOp.result.totalMessages = Len(accepted[lastOp.sessionId])

IsSuffix(tail, all) ==
  /\ Len(tail) <= Len(all)
  /\ \A j \in DOMAIN tail : tail[j] = all[Len(all) - Len(tail) + j]

\* C13: in every reachable state, also under overlapping callers, the stored
\* tail of a session is a contiguous suffix of the messages accepted by
\* addMessage since the session was created or last cleared, in that order.
C13_TailIsSuffixOfAccepted ==
  \A i \in DOMAIN sessions :
    IsSuffix(heap[sessions[i].ref].messages, accepted[sessions[i].id])

RECURSIVE Covered(_)
Covered(summaries) ==
  IF summaries = <<>> THEN <<>>
  ELSE Covered(SubSeq(summaries, 1, Len(summaries) - 1)) \o summaries[Len(summaries)].covers
IsPrefix(a, b) == Len(a) <= Len(b) /\ SubSeq(b, 1, Len(a)) = a

\* C14: summaries is append-only between clears: over every step that is not
\* a clear of the session, the stored summaries before are a prefix of those
\* after; and in sequential use the summaries cover, without gap or overlap
\* and in order, exactly the accepted messages that precede the stored tail
\* (the context is concat(summaries) followed by messages).
C14_NoGapNoOverlap ==
  \A i \in DOMAIN sessions :
    /\ Covered(heap[sessions[i].ref].summaries) \o heap[sessions[i].ref].messages
         = accepted[sessions[i].id]
    /\ \A k \in DOMAIN heap[sessions[i].ref].summaries :
         heap[sessions[i].ref].summaries[k].covers # <<>>
C14_AppendStep ==
  \A sid \in SessionIds :
    (MapHas(sessions, sid) /\ MapHas(sessions', sid) /\ ~ClearSession(sid)) =>
      IsPrefix(Stored(sid).summaries, StoredAfter(sid).summaries)
C17_CleanupStep ==
  LET inactive == {i \in DOMAIN sessions :
                     now - heap[sessions[i].ref].lastActivity > memoryConfig.sessionTimeoutHours}
      left == Len(sessions) - Cardinality(inactive)
  IN /\ lastOp'.outcome = "ok"
     /\ lastOp'.result.removedCount = Cardinality(inactive)
     /\ lastOp'.result.limitRemovedCount = Max(0, left - memoryConfig.maxSessions)
     /\ Len(sessions') = Min(left, memoryConfig.maxSessions)
     /\ Len(sessions') <= memoryConfig.maxSessions
     /\ \A j \in DOMAIN sessions' :
          /\ now - heap'[sessions'[j].ref].lastActivity <= memoryConfig.sessionTimeoutHours
          /\ \E i \in DOMAIN sessions \ inactive : sessions[i].id = sessions'[j].id
C17_CleanupLeavesStoreWithinLimits == [][CleanupInactiveSessions => C17_CleanupStep]_vars
C17_Witness ==
  /\ lastOp.op = "cleanupInactiveSessions"
  /\ lastOp.result.removedCount = 1
  /\ lastOp.result.limitRemovedCount = 0
  /\ Len(sessions) = memoryConfig.maxSessions

\* C18: the number of sessions in the store never exceeds maxSessions
\* (creating a session at the limit removes the oldest ones).
C18_NeverMoreThanMaxSessions == Len(sessions) <= memoryConfig.maxSessions

\* C15: for every combination of MEMORY_THRESHOLD and RECENT_MESSAGES_LIMIT in
\* the environment, the configuration in use after startup (after
\* initializeMemorySystem has run) has recentMessagesLimit < memoryThreshold.
C15_LimitBelowThreshold ==
  lastOp.op = "initializeMemorySystem" =>
    loaded.recentMessagesLimit < loaded.memoryThreshold

\* What a setting is to become: the number when the text is a decimal number
\* within 1..max, the default otherwise.
IsNumber(raw) ==
  /\ raw # Undefined
  /\ raw # <<>>
  /\ \A i \in DOMAIN raw : raw[i] \in {"0", "1", "2", "3", "4", "5", "6", "7", "8", "9"}
Setting(raw, max, default) ==
  IF IsNumber(raw) /\ decimal(raw) >= 1 /\ decimal(raw) <= max THEN decimal(raw) ELSE default

\* C16: each setting falls back on its own: a value that is not a number or is
\* outside its range (1-100, 1-20, 1-168, 1-10000) becomes that field's
\* default (10, 6, 24, 1000), a number in range is used as given, whatever the
\* other fields are.
C16_FallbackPerField ==
  loaded # NotLoaded =>
    /\ loaded.memoryThreshold = Setting(env.MEMORY_THRESHOLD, 100, 10)
    /\ loaded.recentMessagesLimit = Setting(env.RECENT_MESSAGES_LIMIT, 20, 6)
    /\ loaded.sessionTimeoutHours = Setting(env.SESSION_TIMEOUT_HOURS, 168, 24)
    /\ loaded.maxSessions = Setting(env.MAX_SESSIONS, 10000, 1000)

CleanupTimers == {t \in timers : t.task = "cleanup"}
C19_Timer ==
  /\ Cardinality(CleanupTimers) <= 1
  /\ cleanupScheduler.isRunning =>
       CleanupTimers = {[id |-> cleanupScheduler.intervalId, task |-> "cleanup",
                         period |-> cleanupScheduler.cleanupIntervalMs]}
  /\ ~cleanupScheduler.isRunning =>
       (CleanupTimers = {} /\ cleanupScheduler.intervalId = NoTimer)
C19_Step ==
  /\ (SchedulerStart /\ ~cleanupScheduler.isRunning) =>
       /\ cleanupRuns' = cleanupRuns + 1
       /\ cleanupScheduler'.isRunning
       /\ Cardinality(timers') = Cardinality(timers) + 1
  /\ (SchedulerStart /\ cleanupScheduler.isRunning) =>
       UNCHANGED <<sessions, heap, timers, cleanupRuns, cleanupScheduler>>
  /\ (SchedulerStop /\ cleanupScheduler.isRunning) =>
       /\ ~cleanupScheduler'.isRunning
       /\ timers' = timers \ CleanupTimers
       /\ cleanupRuns' = cleanupRuns
  /\ (SchedulerStop /\ ~cleanupScheduler.isRunning) =>
       UNCHANGED <<sessions, heap, timers, cleanupRuns, cleanupScheduler>>
  /\ SchedulerTick =>
       /\ cleanupScheduler.isRunning
       /\ cleanupRuns' = cleanupRuns + 1
       /\ UNCHANGED <<timers, cleanupScheduler>>

\* C19: start() on a stopped scheduler begins one cleanup at once and sets one
\* timer, whose every firing begins one cleanup; start() on a running
\* scheduler and stop() on a stopped one change nothing; after stop() there is
\* no timer, so no scheduled run begins; at most one timer is active.
C19_SchedulerLifecycle == []C19_Timer /\ [][C19_Step]_vars
C19_Witness ==
  /\ lastOp.op = "cleanupScheduler.tick"
  /\ lastOp.result.removedCount >= 1
  /\ cleanupScheduler.isRunning
  /\ ~isInitialized

\* C20: a cleanup run never begins while an earlier run of the cleanup has
\* not finished (it is skipped or queued): at most one run is in progress.
C20_NoOverlappingRuns == cleanupRuns <= 1

C21_Caught ==
  (lastOp.op = "cleanupScheduler.tick" /\ lastOp.outcome = "caught") =>
    /\ cleanupScheduler.isRunning
    /\ \E t \in timers : t.id = cleanupScheduler.intervalId /\ t.task = "cleanup"
    /\ cleanupRuns = 0
C21_Step ==
  /\ SchedulerTick =>
       /\ cleanupScheduler.isRunning
       /\ UNCHANGED <<cleanupScheduler, corruptionChecker, timers, isInitialized>>
       /\ lastOp'.outcome = "caught" => UNCHANGED <<sessions, heap, cleanupRuns>>
  /\ CheckerTick =>
       /\ corruptionChecker.isRunning
       /\ \E t \in timers' : t.id = corruptionChecker.intervalId /\ t.task = "corruption"
       /\ UNCHANGED <<cleanupScheduler, corruptionChecker, timers, isInitialized>>

\* C21: a scheduled cleanup run whose body throws ends in its catch block: the
\* scheduler is still running, its timer is still active and nothing holds
\* the next firing back; a firing of either timer leaves both schedulers and
\* the timers as they were.
C21_FaultIsolation == []C21_Caught /\ [][C21_Step]_vars
C21_Witness ==
  /\ lastOp.op = "cleanupScheduler.tick"
  /\ lastOp.outcome = "caught"
  /\ corruptionChecker.isRunning

\* Structurally well-formed: a string id, two arrays, a Date, a number.
C22_WellFormed(data) ==
  /\ data.sessionId \in SessionIds
  /\ data.messages \in {<<>>, <<1>>}
  /\ data.summaries = <<[covers |-> <<1>>]>>
  /\ data.lastActivity \in {InvalidDate, 0}
  /\ data.messageCount = 1
C22_Step(sid, data) ==
  StoreUpdateSession(sid, data) =>
    IF C22_WellFormed(data)
    THEN /\ lastOp'.outcome = "ok"
         /\ MapHas(sessions', sid)
         /\ StoredAfter(sid) = [data EXCEPT !.lastActivity = now]
         /\ \A other \in SessionIds \ {sid} :
              /\ MapHas(sessions', other) <=> MapHas(sessions, other)
              /\ MapHas(sessions, other) => StoredAfter(other) = Stored(other)
    ELSE /\ lastOp'.outcome = "raised"
         /\ UNCHANGED <<sessions, heap>>

\* C22: updateSession(sessionId, record) raises an error and leaves the store
\* as it was when the record is not well-formed (sessionId not a string,
\* messages or summaries not an array, lastActivity not a Date, messageCount
\* not a number); otherwise the record is stored under sessionId with its
\* lastActivity set to now, the other sessions untouched.
C22_UpdateRejectsIllFormed ==
  [][\A sid \in SessionIds, data \in Records : C22_Step(sid, data)]_vars
C22_Witness ==
  /\ lastOp.op = "updateSession"
  /\ lastOp.outcome = "raised"
  /\ Len(sessions) = NumSessions
  /\ \E sid \in SessionIds : Stored(sid).messageCount = 1

RECURSIVE C23_Sum(_)
C23_Sum(counts) == IF counts = <<>> THEN 0 ELSE Head(counts) + C23_Sum(Tail(counts))
C23_Tails == [i \in DOMAIN sessions |-> Len(heap[sessions[i].ref].messages)]
C23_Summaries == [i \in DOMAIN sessions |-> Len(heap[sessions[i].ref].summaries)]

\* C23: the statistics count what is stored now: totalMessages is the sum of
\* the tail lengths of the stored sessions (not of their messageCount),
\* totalSummaries the sum of their numbers of summaries; an empty store gives
\* zeros and no oldest or newest activity.
C23_StatsCountTails ==
  lastOp.op = "getMemoryStats" =>
    /\ lastOp.result.totalSessions = Len(sessions)
    /\ lastOp.result.totalMessages = C23_Sum(C23_Tails)
    /\ lastOp.result.totalSummaries = C23_Sum(C23_Summaries)
    /\ sessions = <<>> =>
         (lastOp.result.oldestSession = Null /\ lastOp.result.newestSession = Null)

\* C24: a messageCount above the tail length is not a defect: every stored
\* record of a store that nothing has damaged passes validateSessionIntegrity,
\* also after a summarization, and a sweep over it reports no corrupted session.
C24_SummarizedIsValid ==
  /\ \A sid \in MapKeys(sessions) : validateSessionIntegrity(Stored(sid)).isValid
  /\ lastOp.op = "performSystemCorruptionCheck" => lastOp.result.corruptedSessions = 0

\* C25: once a pass has trimmed the tail to recentMessagesLimit, the check of
\* the next addMessage finds nothing left to summarize: adding one message to
\* a session that has a summary and a tail of recentMessagesLimit messages
\* starts no summarization.
C25_RecheckIsNoOp ==
  [][\A sid \in SessionIds :
       (/\ MapHas(sessions, sid)
        /\ Stored(sid).summaries # <<>>
        /\ Len(Stored(sid).messages) = memoryConfig.recentMessagesLimit
        /\ AddMessage(sid))
       => ~\E c \in calls' : c.sessionId = sid /\ c.pc = "summarize"]_vars

C26_Step(c) ==
  LET sid == c.sessionId
      before == Stored(sid)
      after == StoredAfter(sid)
      kept == memoryConfig.recentMessagesLimit
      backlog == Len(before.messages)
      all == accepted[sid]
  IN (SummarizeResolve(c) /\ backlog > kept) =>
       /\ Len(after.summaries) = Len(before.summaries) + 1
       /\ after.summaries[Len(after.summaries)].covers = SubSeq(before.messages, 1, backlog - kept)
       /\ \A k \in DOMAIN before.summaries : after.summaries[k] = before.summaries[k]
       /\ after.messages = SubSeq(before.messages, backlog - kept + 1, backlog)
       /\ after.messages = SubSeq(all, Len(all) - kept + 1, Len(all))
       /\ after.messageCount = before.messageCount
C26_Resume(c) ==
  AddResume(c) =>
    /\ StoredAfter(c.sessionId).messages = Stored(c.sessionId).messages
    /\ StoredAfter(c.sessionId).summaries = Stored(c.sessionId).summaries

\* C26: when messages have piled up in the tail because generateSummary kept
\* failing, the first addMessage whose summarization succeeds appends exactly
\* one summary, made from the whole tail except its last recentMessagesLimit
\* messages, and leaves exactly those last messages as the tail.
C26_BacklogInOnePass ==
  [][\A c \in calls : C26_Step(c) /\ C26_Resume(c)]_vars
C26_Witness ==
  /\ calls = {}
  /\ lastOp.op = "addMessage"
  /\ lastOp.outcome = "ok"
  /\ \E sid \in MapKeys(sessions) :
       /\ Len(Stored(sid).summaries) = 1
       /\ Len(Stored(sid).summaries[1].covers) > memoryConfig.memoryThreshold - memoryConfig.recentMessagesLimit
       /\ Len(Stored(sid).messages) = memoryConfig.recentMessagesLimit

\* C27: with a summarizer that is available and never fails and calls made
\* one after the other (addMessage, getContext, clearSession, corruption
\* sweeps), no stored tail is longer than memoryThreshold when a call has ended.
C27_TailWithinThreshold ==
  (available /\ calls = {}) =>
    \A sid \in MapKeys(sessions) : Len(Stored(sid).messages) <= memoryConfig.memoryThreshold
C27_Witness ==
  /\ available
  /\ calls = {}
  /\ lastOp.op = "addMessage"
  /\ \E sid \in MapKeys(sessions) :
       /\ Stored(sid).summaries # <<>>
       /\ Len(Stored(sid).messages) > memoryConfig.recentMessagesLimit
       /\ Stored(sid).messageCount < Len(accepted[sid])

\* C28: the stored record changes only by a store operation: the message of
\* an addMessage that has not reached its updateSession is not in the stored
\* record, and the message of an addMessage that failed is not in it either.
C28_StoredChangesOnlyByStore ==
  /\ \A c \in calls :
       MapHas(sessions, c.sessionId) => c.msg \notin Elems(Stored(c.sessionId).messages)
  /\ (lastOp.op = "addMessage" /\ lastOp.outcome = "raised"
       /\ MapHas(sessions, lastOp.sessionId) /\ accepted[lastOp.sessionId] # <<>>) =>
       accepted[lastOp.sessionId][Len(accepted[lastOp.sessionId])]
         \notin Elems(Stored(lastOp.sessionId).messages)

C29_On(a) ==
  \/ AddMessage(a)
  \/ GetContext(a)
  \/ ClearSession(a)
  \/ DetectAndRecover(a)
  \/ \E c \in calls :
       c.sessionId = a /\ (SummarizeResolve(c) \/ SummarizeReject(c) \/ AddResume(c))
C29_Frame ==
  \A a \in SessionIds : C29_On(a) =>
    \A b \in SessionIds \ {a} :
      /\ MapHas(sessions', b) <=> MapHas(sessions, b)
      /\ MapHas(sessions, b) => StoredAfter(b) = Stored(b)
      /\ accepted'[b] = accepted[b]
C29_NotBlocked ==
  \A c \in calls : \A b \in SessionIds \ {c.sessionId} :
    /\ ENABLED GetContext(b)
    /\ ENABLED ClearSession(b)
    /\ ENABLED DetectAndRecover(b)
    /\ (nextMsg <= MaxMessages /\ Cardinality(calls) < MaxCalls) => ENABLED AddMessage(b)

\* C29: a step of an operation on one session (addMessage and its later
\* steps, getContext, clearSession, detectAndRecoverCorruption) leaves every
\* other session's stored record as it was, and while a call on one session
\* is suspended in generateSummary every operation on another session can
\* go ahead.
C29_SessionsAreIndependent == [][C29_Frame]_vars /\ []C29_NotBlocked
C29_Witness ==
  /\ lastOp.op = "addMessage"
  /\ lastOp.outcome = "ok"
  /\ \E c \in calls :
       /\ c.sessionId # lastOp.sessionId
       /\ c.pc = "summarize"
       /\ MapHas(sessions, c.sessionId)
       /\ MapHas(sessions, lastOp.sessionId)
       /\ Stored(lastOp.sessionId).messageCount = 1

\* C30: clearSession leaves the id in the store with an empty record, also
\* when the id was unknown; an id that the cleanup removed is gone, and what
\* getContext returns for an id that has received no message since it was
\* cleared or removed is the fresh record: no messages, no summaries,
\* totalMessages 0.
C30_FreshAfterRemoval ==
  /\ lastOp.op = "clearSession" =>
       /\ MapHas(sessions, lastOp.sessionId)
       /\ Stored(lastOp.sessionId).messageCount = 0
  /\ (lastOp.op = "getContext" /\ accepted[lastOp.sessionId] = <<>>) =>
       /\ lastOp.result.totalMessages = 0
       /\ lastOp.result.recentMessages = <<>>
       /\ lastOp.result.summaries = <<>>

C31_Touches(sid) ==
  \/ AddMessage(sid)
  \/ GetContext(sid)
  \/ ClearSession(sid)
  \/ \E data \in Resaved(sid) : StoreUpdateSession(sid, data)
  \/ \E c \in calls : c.sessionId = sid /\ AddResume(c)
C31_Step ==
  /\ \A sid \in SessionIds :
       /\ C31_Touches(sid) => (MapHas(sessions', sid) /\ StoredAfter(sid).lastActivity = now)
       /\ (MapHas(sessions, sid) /\ MapHas(sessions', sid)) =>
            StoredAfter(sid).lastActivity >= Stored(sid).lastActivity
       /\ HasSession(sid) => UNCHANGED <<sessions, heap>>
  /\ GetStats => UNCHANGED <<sessions, heap>>
  /\ now' >= now

\* C31: every addMessage (at its start and at its end), getContext,
\* updateSession and clearSession leaves the session's lastActivity equal to
\* the time of the step; hasSession and the statistics change no record; as
\* the clock never goes back, no stored lastActivity ever decreases.
C31_ActivityTracksTouches ==
  [][C31_Step]_vars /\ [](\A sid \in MapKeys(sessions) : Stored(sid).lastActivity <= now)
C31_Witness ==
  /\ lastOp.op = "getContext"
  /\ now = MaxTime
  /\ Stored(lastOp.sessionId).lastActivity = now
  /\ Stored(lastOp.sessionId).messageCount > 1
  /\ \E other \in MapKeys(sessions) : Stored(other).lastActivity < now

C32_Report == lastOp'.result
C32_Reset(sid, action) ==
  /\ StoredAfter(sid) = createEmptySession(sid, now)
  /\ C32_Report.recovered
  /\ C32_Report.recoveryActions = {action}
C32_RepairFails(sid) ==
  /\ MapHas(sessions, sid)
  /\ ~isFrozen(Stored(sid))
  /\ LET session == updateSessionActivity(Stored(sid), now) IN
     /\ ~validateSessionIntegrity(session).isValid
     /\ ~validateSessionIntegrity(repairSessionData(session, now)).isValid
C32_Step ==
  \A sid \in SessionIds :
    DetectAndRecover(sid) =>
      /\ lastOp'.outcome = "ok"
      /\ MapHas(sessions', sid)
      /\ validateSessionIntegrity(StoredAfter(sid)).isValid
      /\ ~MapHas(sessions, sid) => C32_Reset(sid, "Created new empty session")
      /\ C32_RepairFails(sid) => C32_Reset(sid, "Complete session reset - repair failed")
      /\ (MapHas(sessions, sid) /\ isFrozen(Stored(sid))) =>
           C32_Reset(sid, "Emergency session reset due to recovery error")

\* C32: detectAndRecoverCorruption for a session id returns a report and
\* never raises; afterwards the Map holds a valid record under that id.  For
\* an unknown id the record is a fresh empty one and the report says
\* recovered; when the repaired copy is still invalid, and when the try block
\* raises, the record is replaced by a fresh empty one for the same id and
\* the report names the reset.
C32_AlwaysLeavesARecord == [][C32_Step]_vars
C32_Witness ==
  /\ lastOp.op = "detectAndRecoverCorruption"
  /\ lastOp.result.recoveryActions = {"Complete session reset - repair failed"}
  /\ lastOp.sessionId = 1
  /\ accepted # <<>>
  /\ Stored(1) = createEmptySession(1, now)

C33_Period(ts) == {t.period : t \in {x \in ts : x.task = "cleanup"}}
C33_Step ==
  /\ \A n \in IntervalMinutes :
       (SchedulerStartWith(n) /\ ~cleanupScheduler.isRunning) =>
         C33_Period(timers') = {n * MsPerMinute}
  /\ (InitializeMemorySystem /\ ~cleanupScheduler.isRunning /\ isInitialized') =>
       C33_Period(timers') = {DefaultIntervalMinutes * MsPerMinute}

\* C33: after start(n) on a stopped cleanup scheduler the timer that runs the
\* cleanup has the period of n minutes, for a direct start(n) and for the
\* start(60) of initializeMemorySystem.
C33_PeriodIsArgument == [][C33_Step]_vars

C34_Step ==
  \A minutes \in IntervalMinutes :
    /\ (SchedulerSetInterval(minutes) /\ cleanupScheduler.isRunning) =>
         /\ cleanupScheduler'.isRunning
         /\ cleanupScheduler'.cleanupIntervalMs = minutes * MsPerMinute
         /\ {t \in timers' : t.task = "cleanup"} =
              {[id |-> cleanupScheduler'.intervalId, task |-> "cleanup",
                period |-> minutes * MsPerMinute]}
         /\ {t \in timers' : t.task # "cleanup"} = {t \in timers : t.task # "cleanup"}
    /\ (SchedulerSetInterval(minutes) /\ ~cleanupScheduler.isRunning) =>
         /\ cleanupScheduler' =
              [cleanupScheduler EXCEPT !.cleanupIntervalMs = minutes * MsPerMinute]
         /\ ~cleanupScheduler'.isRunning
         /\ UNCHANGED <<sessions, heap, timers, cleanupRuns, isInitialized, corruptionChecker>>

\* C34: setInterval(minutes) on a running cleanup scheduler leaves it running
\* with exactly one cleanup timer, of the new period, in place of the old one;
\* on a stopped scheduler it only records the new period: no timer is armed,
\* no cleanup runs and the scheduler stays stopped.
C34_SetIntervalRestarts == [][C34_Step]_vars
C34_Witness ==
  /\ lastOp.op = "cleanupScheduler.setInterval"
  /\ cleanupScheduler.isRunning
  /\ cleanupScheduler.cleanupIntervalMs = 30 * MsPerMinute
  /\ \E t \in timers : t.task = "cleanup" /\ t.period = 30 * MsPerMinute
  /\ \E t \in timers : t.task = "corruption"
  /\ cleanupRuns > 0

\* The lines of a text, and what each line shows.
RECURSIVE C35_Lines(_)
C35_Lines(text) ==
  IF \A i \in DOMAIN text : text[i] # NewLine THEN <<text>>
  ELSE LET k == CHOOSE i \in DOMAIN text :
                  text[i] = NewLine /\ \A j \in 1..(i - 1) : text[j] # NewLine
       IN <<SubSeq(text, 1, k - 1)>> \o C35_Lines(SubSeq(text, k + 1, Len(text)))
C35_IsSummary(line) == Len(line) = 4 /\ line[1] = "summary "
C35_IsMessage(line) == Len(line) = 6 /\ line[1] = "["
C35_Shown(lines, summaries, messages) ==
  LET ofSummaries == SelectSeq(lines, C35_IsSummary)
      ofMessages == SelectSeq(lines, C35_IsMessage)
  IN /\ [i \in DOMAIN ofSummaries |-> ofSummaries[i][4]] = summaries
     /\ [i \in DOMAIN ofSummaries |-> ofSummaries[i][2]] =
          [i \in DOMAIN summaries |-> numberToString(i)]
     /\ [i \in DOMAIN ofMessages |->
           [role |-> ofMessages[i][4], content |-> ofMessages[i][6],
            shown |-> ofMessages[i][2]]] =
        [i \in DOMAIN messages |->
           [role |-> messages[i].role, content |-> messages[i].content,
            shown |-> toLocaleString(messages[i].timestamp)]]
     /\ \A i, j \in DOMAIN lines :
          (C35_IsSummary(lines[i]) /\ C35_IsMessage(lines[j])) => i < j
     /\ (\E i \in DOMAIN lines : lines[i] = <<SummariesHeader>>) <=> summaries # <<>>
     /\ (\E i \in DOMAIN lines : lines[i] = <<MessagesHeader>>) <=> messages # <<>>
C35_Rendering ==
  lastOp.op = "formatContextForLLM" =>
    LET context == lastOp.result.context
        text == lastOp.result.text
    IN /\ C35_Shown(C35_Lines(text), context.summaries, context.recentMessages)
       /\ (context.summaries = <<>> /\ context.recentMessages = <<>>) <=> text = <<>>
C35_Again ==
  (FormatContext /\ lastOp.op = "formatContextForLLM") =>
    lastOp'.result.text = lastOp.result.text

\* C35: formatContextForLLM shows every summary, in list order, before every
\* recent message, in list order; the header of a list is there exactly when
\* the list is not empty; the text is empty exactly for the empty context;
\* rendering the same context again, at any later time, gives the same text.
C35_FormatIsPure == []C35_Rendering /\ [][C35_Again]_vars
C35_Witness ==
  /\ lastOp.op = "formatContextForLLM"
  /\ Len(lastOp.result.context.summaries) = MaxListed
  /\ Len(lastOp.result.context.recentMessages) = MaxListed
  /\ lastOp.result.context.recentMessages[1] # lastOp.result.context.recentMessages[2]
  /\ lastOp.result.context.summaries[1] # lastOp.result.context.summaries[2]
  /\ lastOp.result.at = MaxTime

\* C36: every id that generateUniqueSessionId returns, the fallback after
\* maxAttempts collisions included, passes validateSessionId and is not the
\* id of a session in the store.
C36_GeneratedIsValidAndFresh ==
  lastOp.op = "generateUniqueSessionId" =>
    /\ validateSessionId(lastOp.result.id).isValid
    /\ ~MapHas(sessions, lastOp.result.id)

C37_Step ==
  \A provided \in ProvidedIds, analytics \in BOOLEAN, streamed \in {"failed", "empty", "text"} :
    (Post(provided, analytics, streamed) /\ provided # NoId
       /\ ~validateSessionId(provided).isValid) =>
      UNCHANGED <<sessions, heap>>

\* C37: a chat request whose sessionId fails validateSessionId leaves the
\* session store unchanged, whether the analytics engine answers it or the
\* regular chat does.
C37_InvalidIdStoresNothing == [][C37_Step]_vars

C38_Step ==
  (InitializeMemorySystem /\ isInitialized) => UNCHANGED <<timers, cleanupRuns>>

\* C38: whenever the system reports initialized, the cleanup scheduler and
\* the corruption checker are both running; an initializeMemorySystem while
\* initialized arms no timer and begins no cleanup.
C38_InitializedMeansRunning ==
  [](isInitialized => (cleanupScheduler.isRunning /\ corruptionChecker.isRunning))
  /\ [][C38_Step]_vars

C39_LoggedWithinTenMinutes ==
  Cardinality({i \in DOMAIN errors : withinTenMinutes(errors[i], now)})

\* C39: when more than 10 of the logged errors are from the last 10 minutes,
\* isMemorySystemHealthy reports 'High error rate' and healthy = false.
C39_HighErrorRateReported ==
  (lastOp.op = "isMemorySystemHealthy" /\ lastOp.result.at = now
     /\ C39_LoggedWithinTenMinutes > 10) =>
    /\ "High error rate" \in lastOp.result.health.issues
    /\ ~lastOp.result.health.healthy
====
